---- MODULE Spec2Model ----
(***************************************************************************)
(* CSV ingestion, column-role resolution, aggregation and the upload and   *)
(* AI-request handlers of the insights dashboard                           *)
(* (src/components/HubspotInsights.tsx).                                   *)
(*                                                                         *)
(* A JavaScript string is modelled as a sequence of one-character strings, *)
(* so that indexing, trimming and substring search are computed as the     *)
(* code computes them.                                                     *)
(*                                                                         *)
(*   Spec      parseCsv, one loop iteration per step, over every text of   *)
(*             length <= MaxLen on Alphabet plus the texts of ExampleTexts *)
(*   SpecFair  the same machine over the texts of length <= MaxLenFair on  *)
(*             FairAlphabet, with weak fairness of its steps (the loop is  *)
(*             sequential code that runs to completion)                    *)
(*   SpecDash  computeDashboard applied to a parsed table: the columns it  *)
(*             resolves and the label of every row                         *)
(*   SpecNum   parseNumber applied to every text of length <= MaxNumLen on *)
(*             NumAlphabet plus the texts of NumExamples                   *)
(*   SpecAgg   computeDashboard applied to tables with numeric cells: the  *)
(*             enriched rows, the KPIs and the two rankings                *)
(*   SpecUi    the component: uploads, AI requests, New Report, Dismiss    *)
(*             and copy failures interleaved, over the files of UiFiles    *)
(*   SpecUiFair the same component when a started upload runs to its end   *)
(*   SpecSample generateAI applied to an uploaded table, up to tables      *)
(*             beyond the limits of the sample                             *)
(***************************************************************************)
EXTENDS Integers, Sequences, FiniteSets, TLC

VARIABLES
    text,          \* parseCsv: the argument
    i,             \* parseCsv: loop index (1-based here, 0-based in the code)
    currentField,  \* parseCsv: accumulator of the field being read
    currentRow,    \* parseCsv: fields of the row being read
    inQuotes,      \* parseCsv: inside a quoted field
    rows,          \* parseCsv: raw rows pushed so far (string[][])
    pc,            \* position of the running function
    headers,       \* parseCsv result / computeDashboard argument
    mapped,        \* parseCsv result rows / computeDashboard argument
    labelCol,      \* computeDashboard: resolved label column
    sessionsCol,   \* computeDashboard: resolved traffic column
    conversionsCol,\* computeDashboard: resolved conversion column
    labels,        \* computeDashboard: label of every enriched row
    value,         \* parseNumber: the argument
    number,        \* parseNumber: the value returned
    enriched,      \* computeDashboard: the enriched rows
    kpis,          \* component state: the KPI record, null before an upload
    topBySessions, \* component state: top rows by traffic
    topByRate,     \* component state: top rows by conversion rate
    fileName,      \* component state: name of the uploaded file, or null
    loading,       \* component state: an upload is being processed
    errorMessage,  \* component state: the message shown, or null
    analysis,      \* component state: the AI analysis shown, or null
    csvHeaders,    \* component state: headers of the uploaded table
    csvRows,       \* component state: rows of the uploaded table
    isGeneratingAI,\* component state: an AI request is being made
    file,          \* handleFileUpload: the file whose text is awaited, or null
    request        \* generateAI: the text handed to analyzeHubspotData and
                   \* not answered yet, or null

vars == <<text, i, currentField, currentRow, inQuotes, rows, pc, headers,
          mapped, labelCol, sessionsCol, conversionsCol, labels, value,
          number, enriched, kpis, topBySessions, topByRate, fileName,
          loading, errorMessage, analysis, csvHeaders, csvRows,
          isGeneratingAI, file, request>>

\* the variables of a call of parseNumber
numVars == <<value, number>>

\* what computeDashboard computes and stores
aggVars == <<enriched, kpis, topBySessions, topByRate>>

\* the rest of the component state and the two pending asynchronous calls
uiVars == <<fileName, loading, errorMessage, analysis, csvHeaders, csvRows,
            isGeneratingAI, file, request>>

(***************************************************************************)
(* Characters and strings                                                  *)
(***************************************************************************)
QUOTE == "\""
COMMA == ","
LF    == "\n"
CR    == "\r"
SP    == " "
TAB   == "\t"

\* null / undefined of the code: a value that no string equals
NULL == <<"null">>

\* the empty string ''
Empty == <<>>

\* no call of parseNumber is being looked at
NumIdle == value = Empty /\ number = NULL

\* useState(null), useState([]): no dashboard has been computed
AggIdle ==
    enriched = <<>> /\ kpis = NULL /\ topBySessions = <<>> /\ topByRate = <<>>

\* the component as mounted, without an initial analysis
UiIdle ==
    /\ fileName = NULL
    /\ loading = FALSE
    /\ errorMessage = NULL
    /\ analysis = NULL
    /\ csvHeaders = <<>>
    /\ csvRows = <<>>
    /\ isGeneratingAI = FALSE
    /\ file = NULL
    /\ request = NULL

\* the component inside handleFileUpload, parseCsv having returned the
\* table of headers and mapped
UiUploading ==
    /\ fileName = <<"f">>
    /\ loading = TRUE
    /\ errorMessage = NULL
    /\ analysis = NULL
    /\ csvHeaders = headers
    /\ csvRows = mapped
    /\ isGeneratingAI = FALSE
    /\ file = NULL
    /\ request = NULL

Range(s) == {s[k] : k \in DOMAIN s}

Last(s) == s[Len(s)]

\* characters String.prototype.trim removes (those that can occur here)
WhiteSpace == {SP, TAB, LF, CR}

RECURSIVE TrimStart(_)
TrimStart(s) ==
    IF s # <<>> /\ Head(s) \in WhiteSpace THEN TrimStart(Tail(s)) ELSE s

RECURSIVE TrimEnd(_)
TrimEnd(s) ==
    IF s # <<>> /\ Last(s) \in WhiteSpace
    THEN TrimEnd(SubSeq(s, 1, Len(s) - 1))
    ELSE s

\* String.prototype.trim
Trim(s) == TrimEnd(TrimStart(s))

(***************************************************************************)
(* parseCsv                                                                *)
(***************************************************************************)
\* the locals of parseCsv as one value
ScanState(k, f, r, q, rs) ==
    [i |-> k, currentField |-> f, currentRow |-> r, inQuotes |-> q, rows |-> rs]

\* the locals before the first iteration
ScanInit == ScanState(1, Empty, <<>>, FALSE, <<>>)

\* pushField: the current field joins the current row
PushField(st) ==
    [st EXCEPT !.currentRow = Append(st.currentRow, st.currentField),
               !.currentField = Empty]

\* pushRow: a row of one blank field is ignored once a row exists; the early
\* return leaves currentRow as it is
PushRow(st) ==
    IF Len(st.currentRow) = 1 /\ Trim(st.currentRow[1]) = Empty /\ Len(st.rows) > 0
    THEN st
    ELSE [st EXCEPT !.rows = Append(st.rows, st.currentRow), !.currentRow = <<>>]

\* text[i], and text[i + 1] or '' at the end of the text
CharAt(t, k) == t[k]
NextChar(t, k) == IF k + 1 <= Len(t) THEN t[k + 1] ELSE ""

\* a quote branch that takes any two double quotes in a row for an escape
QuoteCharEscapeAnywhere(t, st) ==
    IF NextChar(t, st.i) = QUOTE
    THEN [st EXCEPT !.currentField = Append(st.currentField, QUOTE), !.i = st.i + 2]
    ELSE [st EXCEPT !.inQuotes = ~st.inQuotes, !.i = st.i + 1]

\* the branch of the loop body for a double quote
QuoteChar(t, st) ==
    IF st.inQuotes /\ NextChar(t, st.i) = QUOTE
    THEN [st EXCEPT !.currentField = Append(st.currentField, QUOTE), !.i = st.i + 2]
    ELSE [st EXCEPT !.inQuotes = ~st.inQuotes, !.i = st.i + 1]

\* the branch of the loop body for a line terminator outside quotes
Terminator(t, st) ==
    LET skip == IF CharAt(t, st.i) = CR /\ NextChar(t, st.i) = LF THEN 2 ELSE 1
    IN  [PushRow(PushField(st)) EXCEPT !.i = st.i + skip]

\* a loop body whose comma ends the field inside quotes too
ScanCharCommaAlwaysSplits(t, st) ==
    LET ch == CharAt(t, st.i)
    IN  IF ch = QUOTE THEN QuoteChar(t, st)
        ELSE IF ch = COMMA
             THEN [PushField(st) EXCEPT !.i = st.i + 1]
        ELSE IF ~st.inQuotes /\ (ch = LF \/ ch = CR) THEN Terminator(t, st)
        ELSE [st EXCEPT !.currentField = Append(st.currentField, ch),
                        !.i = st.i + 1]

\* one iteration of the for loop, its i += 1 included
ScanChar(t, st) ==
    LET ch == CharAt(t, st.i)
    IN  IF ch = QUOTE THEN QuoteChar(t, st)
        ELSE IF ~st.inQuotes /\ ch = COMMA
             THEN [PushField(st) EXCEPT !.i = st.i + 1]
        ELSE IF ~st.inQuotes /\ (ch = LF \/ ch = CR) THEN Terminator(t, st)
        ELSE [st EXCEPT !.currentField = Append(st.currentField, ch),
                        !.i = st.i + 1]

\* an end of parse that forgets the pending field
FlushWithoutField(st) ==
    IF Len(st.currentRow) > 0 THEN PushRow(st) ELSE st

\* after the loop: pushField(); if (currentRow.length) pushRow()
Flush(st) ==
    LET a == PushField(st)
    IN  IF Len(a.currentRow) > 0 THEN PushRow(a) ELSE a

\* (rows[0] || []).map(h => h.trim())
Headers(rs) ==
    IF Len(rs) > 0 THEN [k \in 1..Len(rs[1]) |-> Trim(rs[1][k])] ELSE <<>>

\* r.some(v => v.trim() !== '')
SomeNonBlank(r) == \E k \in 1..Len(r) : Trim(r[k]) # Empty

\* data rows without the filter on blank rows
DataRowsUnfiltered(rs) ==
    IF Len(rs) > 1 THEN Tail(rs) ELSE <<>>

\* rows.slice(1).filter(r => r.some(v => v.trim() !== ''))
DataRows(rs) ==
    IF Len(rs) > 1 THEN SelectSeq(Tail(rs), SomeNonBlank) ELSE <<>>

\* r[idx] ?? ''
CellAt(r, idx) == IF idx <= Len(r) THEN r[idx] ELSE Empty

\* a row object whose cells are not trimmed
MapRowUntrimmed(hs, r) ==
    [h \in Range(hs) |->
        LET idx == CHOOSE k \in 1..Len(hs) :
                       hs[k] = h /\ \A m \in 1..Len(hs) : hs[m] = h => m <= k
        IN  CellAt(r, idx)]

\* a row object built by walking the cells of the line instead of the headers
MapRowByCells(hs, r) ==
    LET n == IF Len(r) < Len(hs) THEN Len(r) ELSE Len(hs)
    IN  [h \in {hs[k] : k \in 1..n} |->
            LET idx == CHOOSE k \in 1..n :
                           hs[k] = h /\ \A m \in 1..n : hs[m] = h => m <= k
            IN  Trim(r[idx])]

\* a row object in which the first of equal headers keeps the key
MapRowEarlierWins(hs, r) ==
    [h \in Range(hs) |->
        LET idx == CHOOSE k \in 1..Len(hs) :
                       hs[k] = h /\ \A m \in 1..Len(hs) : hs[m] = h => k <= m
        IN  Trim(CellAt(r, idx))]

\* the object built by headers.forEach: a later equal header overwrites the key
MapRow(hs, r) ==
    [h \in Range(hs) |->
        LET idx == CHOOSE k \in 1..Len(hs) :
                       hs[k] = h /\ \A m \in 1..Len(hs) : hs[m] = h => m <= k
        IN  Trim(CellAt(r, idx))]

\* the value parseCsv returns for the raw rows rs
BuildTable(rs) ==
    LET hs == Headers(rs)
        dr == DataRows(rs)
    IN  [headers |-> hs, rows |-> [k \in 1..Len(dr) |-> MapRow(hs, dr[k])]]

RECURSIVE Scan(_, _)
Scan(t, st) == IF st.i > Len(t) THEN st ELSE Scan(t, ScanChar(t, st))

\* parseCsv as a function of its argument
ParseCsv(t) == BuildTable(Flush(Scan(t, ScanInit)).rows)

(***************************************************************************)
(* Inputs                                                                  *)
(***************************************************************************)
MaxLen == 5

Alphabet == {"a", "b", SP, COMMA, QUOTE, LF, CR}

Texts == UNION {[1..n -> Alphabet] : n \in 0..MaxLen}

\* a,"b,c",d
TextQuotedComma == <<"a", COMMA, QUOTE, "b", COMMA, "c", QUOTE, COMMA, "d">>

\* h1,h2\n"line1\nline2",x
TextQuotedNewline ==
    <<"h", "1", COMMA, "h", "2", LF, QUOTE, "l", "i", "n", "e", "1", LF,
      "l", "i", "n", "e", "2", QUOTE, COMMA, "x">>

\* h\n"a""b"
TextEscapedQuote == <<"h", LF, QUOTE, "a", QUOTE, QUOTE, "b", QUOTE>>

\* h\r\n1\r\n2
TextCrLf == <<"h", CR, LF, "1", CR, LF, "2">>

\* h\n1\n\n
TextTrailingBlank == <<"h", LF, "1", LF, LF>>

ExampleTexts ==
    {TextQuotedComma, TextQuotedNewline, TextEscapedQuote, TextCrLf,
     TextTrailingBlank}

(***************************************************************************)
(* The parser as a state machine                                           *)
(***************************************************************************)
Cur == ScanState(i, currentField, currentRow, inQuotes, rows)

SetCur(st) ==
    /\ i' = st.i
    /\ currentField' = st.currentField
    /\ currentRow' = st.currentRow
    /\ inQuotes' = st.inQuotes
    /\ rows' = st.rows

\* parseCsv called on one of the texts ts
ParseCall(ts) ==
    /\ text \in ts
    /\ i = 1
    /\ currentField = Empty
    /\ currentRow = <<>>
    /\ inQuotes = FALSE
    /\ rows = <<>>
    /\ pc = "scan"
    /\ headers = <<>>
    /\ mapped = <<>>
    /\ labelCol = NULL
    /\ sessionsCol = NULL
    /\ conversionsCol = NULL
    /\ labels = <<>>
    /\ NumIdle
    /\ AggIdle
    /\ UiIdle

Init == ParseCall(Texts \cup ExampleTexts)

\* one iteration of the loop of parseCsv
ScanStep ==
    /\ pc = "scan"
    /\ i <= Len(text)
    /\ SetCur(ScanChar(text, Cur))
    /\ UNCHANGED <<text, pc, headers, mapped, labelCol, sessionsCol,
                   conversionsCol, labels>>
    /\ UNCHANGED numVars
    /\ UNCHANGED aggVars
    /\ UNCHANGED uiVars

\* the code after the loop, to the return
Finish ==
    /\ pc = "scan"
    /\ i > Len(text)
    /\ LET st == Flush(Cur)
           tb == BuildTable(st.rows)
       IN  /\ SetCur(st)
           /\ headers' = tb.headers
           /\ mapped' = tb.rows
    /\ pc' = "done"
    /\ UNCHANGED <<text, labelCol, sessionsCol, conversionsCol, labels>>
    /\ UNCHANGED numVars
    /\ UNCHANGED aggVars
    /\ UNCHANGED uiVars

Next == ScanStep \/ Finish

Spec == Init /\ [][Next]_vars

\* the same machine over the shorter texts, with the fairness of sequential
\* code: a step that can be taken is taken
MaxLenFair == 3

\* the characters the scan tells apart, and one that it does not
FairAlphabet == {"a", COMMA, QUOTE, LF, CR}

FairTexts == UNION {[1..n -> FairAlphabet] : n \in 0..MaxLenFair}

InitFair == ParseCall(FairTexts \cup ExampleTexts)

SpecFair == InitFair /\ [][Next]_vars /\ WF_vars(Next)

(***************************************************************************)
(* Reference notions of the claims: lines, fields, terminators             *)
(***************************************************************************)
Terminators == {LF, CR}

\* the segments of s between separators; with crlf, CR LF is one separator
RECURSIVE Segments(_, _, _, _, _)
Segments(s, seps, crlf, k, acc) ==
    IF k > Len(s) THEN acc
    ELSE IF s[k] \in seps
         THEN LET two == crlf /\ s[k] = CR /\ k < Len(s) /\ s[k + 1] = LF
              IN  Segments(s, seps, crlf, IF two THEN k + 2 ELSE k + 1,
                           Append(acc, Empty))
         ELSE Segments(s, seps, crlf, k + 1,
                       [acc EXCEPT ![Len(acc)] = Append(acc[Len(acc)], s[k])])

\* the lines of a text: a terminator at the very end ends the last line and
\* starts no further one; the empty text has no line
Lines(t) ==
    LET segs == Segments(t, Terminators, TRUE, 1, <<Empty>>)
    IN  IF Last(segs) = Empty THEN SubSeq(segs, 1, Len(segs) - 1) ELSE segs

\* the comma-separated fields of a line
Fields(line) == Segments(line, {COMMA}, FALSE, 1, <<Empty>>)

NoQuotes(t) == \A k \in 1..Len(t) : t[k] # QUOTE

\* a blank line has no character other than white space
NoBlankLine(t) == \A k \in 1..Len(Lines(t)) : Trim(Lines(t)[k]) # Empty

TrimAll(fs) == [k \in 1..Len(fs) |-> Trim(fs[k])]

Distinct(hs) == \A a, b \in 1..Len(hs) : hs[a] = hs[b] => a = b

\* the mapping a line stands for under pairwise distinct headers hs
LineMapping(hs, line) ==
    [h \in Range(hs) |->
        LET pos == CHOOSE k \in 1..Len(hs) : hs[k] = h
            fs  == Fields(line)
        IN  IF pos <= Len(fs) THEN Trim(fs[pos]) ELSE Empty]

HasNonBlankField(line) == \E k \in 1..Len(Fields(line)) : Trim(Fields(line)[k]) # Empty

\* the table the lines of a text stand for, read positionally
PositionalTable(t) ==
    LET ls == Lines(t)
        hs == TrimAll(Fields(ls[1]))
        later == SelectSeq(Tail(ls), HasNonBlankField)
    IN  [headers |-> hs,
         rows |-> [k \in 1..Len(later) |-> LineMapping(hs, later[k])]]

\* the texts C1 speaks of; the first line is what the headers are read from,
\* so there is one
C1_Applies ==
    /\ pc = "done"
    /\ NoQuotes(text)
    /\ Lines(text) # <<>>
    /\ NoBlankLine(text)
    /\ Distinct(TrimAll(Fields(Lines(text)[1])))

\* C1: for a text without double quotes, without blank (empty or white-space
\* only) lines and with pairwise distinct trimmed headers, parseCsv returns
\* the trimmed fields of the first line as headers and, for every later line
\* with a non-blank field, in source order, the mapping of the header at
\* position i to the trimmed i-th field of the line ('' when the line is
\* shorter).
C1_PositionalMapping ==
    C1_Applies =>
        /\ headers = PositionalTable(text).headers
        /\ mapped = PositionalTable(text).rows

\* a parse of two columns with a data row whose second cell is filled
C1_Witness ==
    /\ C1_Applies
    /\ Len(headers) = 2
    /\ Len(mapped) >= 1
    /\ \E k \in 1..Len(mapped) : mapped[k][headers[2]] # Empty

(***************************************************************************)
(* C2, C3: quoting                                                         *)
(***************************************************************************)
Scanning == pc = "scan" /\ i <= Len(text)

\* the field values the example texts stand for
FieldBC == <<"b", COMMA, "c">>
FieldH1 == <<"h", "1">>
FieldTwoLines == <<"l", "i", "n", "e", "1", LF, "l", "i", "n", "e", "2">>
FieldAQuoteB == <<"a", QUOTE, "b">>

C2_Step ==
    (Scanning /\ inQuotes /\ text[i] \in {COMMA, LF, CR}) =>
        /\ currentField' = Append(currentField, text[i])
        /\ currentRow' = currentRow
        /\ rows' = rows
        /\ inQuotes'
        /\ i' = i + 1

C2_Examples ==
    /\ (pc = "done" /\ text = TextQuotedComma) =>
           headers = << <<"a">>, FieldBC, <<"d">> >>
    /\ (pc = "done" /\ text = TextQuotedNewline) =>
           /\ Len(mapped) = 1
           /\ mapped[1][FieldH1] = FieldTwoLines

\* C2: while inQuotes is true, a comma, a \n and a \r are each appended to the
\* current field and end neither the field nor the row (the scan moves on by
\* one character); a,"b,c",d has the three header fields a / b,c / d and
\* h1,h2\n"line1\nline2",x has exactly one data row, whose h1 is line1\nline2.
C2_QuotedDelimitersLiteral == [][C2_Step]_vars /\ []C2_Examples

\* a comma or terminator read inside quotes now sits in the current field
C2_Witness ==
    /\ pc = "scan"
    /\ inQuotes
    /\ \E k \in 1..Len(currentField) : currentField[k] \in {COMMA, LF, CR}
    /\ currentRow = <<>>
    /\ rows = <<>>

\* the double quotes held by the fields read so far
QuotesIn(f) == Cardinality({k \in 1..Len(f) : f[k] = QUOTE})

RECURSIVE SumQuotes(_)
SumQuotes(r) == IF r = <<>> THEN 0 ELSE QuotesIn(Head(r)) + SumQuotes(Tail(r))

RECURSIVE SumQuotesRows(_)
SumQuotesRows(rs) ==
    IF rs = <<>> THEN 0 ELSE SumQuotes(Head(rs)) + SumQuotesRows(Tail(rs))

QuotesEmitted(f, r, rs) == QuotesIn(f) + SumQuotes(r) + SumQuotesRows(rs)

C3_Step ==
    LET escaped == Scanning /\ text[i] = QUOTE /\ inQuotes
                   /\ i < Len(text) /\ text[i + 1] = QUOTE
    IN  /\ escaped =>
            /\ currentField' = Append(currentField, QUOTE)
            /\ i' = i + 2
            /\ inQuotes'
            /\ currentRow' = currentRow /\ rows' = rows
        /\ (Scanning /\ text[i] = QUOTE /\ ~escaped) =>
            /\ inQuotes' = ~inQuotes
            /\ i' = i + 1
            /\ currentField' = currentField
            /\ currentRow' = currentRow /\ rows' = rows
        /\ ~escaped =>
            QuotesEmitted(currentField', currentRow', rows')
                = QuotesEmitted(currentField, currentRow, rows)

C3_Example ==
    (pc = "done" /\ text = TextEscapedQuote) =>
        /\ Len(mapped) = 1
        /\ mapped[1][<<"h">>] = FieldAQuoteB

\* C3: a double quote toggles inQuotes, except that one read while inQuotes is
\* true and followed at once by another appends a single " to the current
\* field, consumes both and leaves inQuotes true; no other step adds a double
\* quote to any field; h\n"a""b" has one data row, of value a"b.
C3_QuoteToggleAndEscape == [][C3_Step]_vars /\ []C3_Example

\* an escaped quote has been emitted and the parser is still inside quotes
C3_Witness ==
    /\ pc = "scan"
    /\ inQuotes
    /\ QuotesIn(currentField) = 1
    /\ i > 3

(***************************************************************************)
(* C4, C5: line terminators                                                *)
(***************************************************************************)
\* the table parseCsv returned
Returned == [headers |-> headers, rows |-> mapped]

\* a character at position k lies outside quotes when an even number of double
\* quotes precedes it
OutsideQuotes(t, k) == Cardinality({m \in 1..(k - 1) : t[m] = QUOTE}) % 2 = 0

TerminatorsOutsideQuotes(t) ==
    \A k \in 1..Len(t) : t[k] \in Terminators => OutsideQuotes(t, k)

\* t with every \n replaced by the string by
RECURSIVE ReplaceLF(_, _)
ReplaceLF(t, by) ==
    IF t = <<>> THEN <<>>
    ELSE (IF Head(t) = LF THEN by ELSE <<Head(t)>>) \o ReplaceLF(Tail(t), by)

\* C4: for every text whose line terminators all lie outside quotes, replacing
\* every \n by \r\n, or by \r, gives the same table.
C4_TerminatorsEquivalent ==
    (pc = "done" /\ TerminatorsOutsideQuotes(text)) =>
        /\ ParseCsv(ReplaceLF(text, <<CR, LF>>)) = Returned
        /\ ParseCsv(ReplaceLF(text, <<CR>>)) = Returned

MaxAppend == 2

\* the non-empty runs of up to MaxAppend line terminators
TerminatorRuns == UNION {[1..n -> Terminators] : n \in 1..MaxAppend}

\* the text does not end inside an open quote
EndsOutsideQuotes(t) == OutsideQuotes(t, Len(t) + 1)

\* C5: for every text that does not end inside an open quote, appending line
\* terminators at the end gives the same headers and the same data rows
\* (h\n1\n\n has exactly one data row).
C5_TrailingTerminatorsIgnored ==
    /\ (pc = "done" /\ EndsOutsideQuotes(text)) =>
           \A run \in TerminatorRuns : ParseCsv(text \o run) = Returned
    /\ (pc = "done" /\ text = TextTrailingBlank) =>
           /\ Len(mapped) = 1
           /\ mapped[1][<<"h">>] = <<"1">>

\* a parsed text with a data row, ending in two line terminators of which the
\* last left a pending blank row behind
C5_Witness ==
    /\ pc = "done"
    /\ EndsOutsideQuotes(text)
    /\ Len(text) >= 2
    /\ text[Len(text)] \in Terminators
    /\ text[Len(text) - 1] = LF
    /\ Len(mapped) = 1
    /\ Len(rows) = 3

(***************************************************************************)
(* C6: termination and unbalanced quotes                                   *)
(***************************************************************************)
AtEnd == pc = "scan" /\ i > Len(text)

C6_Step ==
    \* every iteration moves the index forward, never past the end
    /\ Scanning => (i' > i /\ i' <= Len(text) + 1 /\ pc' = "scan")
    \* inside quotes everything but a double quote is absorbed by the field
    /\ (Scanning /\ inQuotes /\ text[i] # QUOTE) =>
           (currentField' = Append(currentField, text[i]) /\ inQuotes')
    \* at the end of the text the function returns; with a quote still open
    \* the pending field and its row are part of what it returns
    /\ AtEnd => pc' = "done"
    /\ (AtEnd /\ inQuotes) =>
           Returned' = BuildTable(Append(rows, Append(currentRow, currentField)))

\* C6: parseCsv terminates with a table for every text: the scan index grows
\* strictly up to the end of the text, and when the text ends with inQuotes
\* still true, what followed the open quote has been absorbed by the current
\* field, and that field and its row are flushed into the returned table.
C6_TerminatesAndAbsorbs == <>(pc = "done") /\ [][C6_Step]_vars

\* a text that ended inside an open quote, whose absorbed field (a comma and
\* a letter) is the one data row returned
C6_Witness ==
    /\ pc = "done"
    /\ inQuotes
    /\ Len(mapped) = 1
    /\ \E h \in DOMAIN mapped[1] :
           \E k \in 1..Len(mapped[1][h]) : mapped[1][h][k] = COMMA

(***************************************************************************)
(* C7: the shape of the row mappings                                       *)
(***************************************************************************)
\* C7 as claimed: every row mapping has as many entries as there are headers.
C7_RowLengthEqualsHeaderCount ==
    pc = "done" =>
        \A k \in 1..Len(mapped) : Cardinality(DOMAIN mapped[k]) = Len(headers)

\* C7 as amended: the keys of every row mapping are exactly the headers, one
\* entry per distinct header, hence as many entries as headers when the
\* headers are pairwise distinct and fewer when two headers are equal; a
\* header whose position lies beyond the fields of the line maps to '', and
\* fields beyond the headers add no entry.
C7_RowKeysAreTheHeaders ==
    pc = "done" =>
        \A k \in 1..Len(mapped) :
            /\ DOMAIN mapped[k] = Range(headers)
            /\ Distinct(headers) => Cardinality(DOMAIN mapped[k]) = Len(headers)
            /\ ~Distinct(headers) => Cardinality(DOMAIN mapped[k]) < Len(headers)
            /\ \A p \in 1..Len(headers) :
                   (/\ p > Len(DataRows(rows)[k])
                    /\ \A m \in 1..Len(headers) : headers[m] = headers[p] => m <= p)
                   => mapped[k][headers[p]] = Empty

\* a data line with fewer fields than the two distinct headers
C7_Witness ==
    /\ pc = "done"
    /\ Len(headers) = 2
    /\ Distinct(headers)
    /\ Len(mapped) = 1
    /\ Len(DataRows(rows)[1]) = 1
    /\ mapped[1][headers[1]] # Empty

(***************************************************************************)
(* normalizeHeader, pickColumn                                             *)
(***************************************************************************)
UpperCase ==
    <<"A", "B", "C", "D", "E", "F", "G", "H", "I", "J", "K", "L", "M",
      "N", "O", "P", "Q", "R", "S", "T", "U", "V", "W", "X", "Y", "Z">>

LowerCase ==
    <<"a", "b", "c", "d", "e", "f", "g", "h", "i", "j", "k", "l", "m",
      "n", "o", "p", "q", "r", "s", "t", "u", "v", "w", "x", "y", "z">>

Digits == {"0", "1", "2", "3", "4", "5", "6", "7", "8", "9"}

\* toLowerCase on the letters A-Z
LowerOf == [k \in 1..26 |-> LowerCase[k]]

UpperIndex == [c \in Range(UpperCase) |-> CHOOSE k \in 1..26 : UpperCase[k] = c]

\* toLowerCase, one character
ToLower(c) == IF c \in DOMAIN UpperIndex THEN LowerOf[UpperIndex[c]] ELSE c

\* the class [a-z0-9]
LowerAlnum == Range(LowerCase) \cup Digits

IsLowerAlnum(c) == c \in LowerAlnum

\* h.toLowerCase().replace(/[^a-z0-9]+/g, '')
NormalizeHeader(h) ==
    SelectSeq([k \in 1..Len(h) |-> ToLower(h[k])], IsLowerAlnum)

\* String.prototype.includes
Includes(s, sub) ==
    \E k \in 0..(Len(s) - Len(sub)) : SubSeq(s, k + 1, k + Len(sub)) = sub

\* the least member of a non-empty set of positions
Least(S) == CHOOSE k \in S : \A m \in S : k <= m

\* headers.map(h => ({ raw: h, n: normalizeHeader(h) })): the n of every header
NormalizedHeaders(hs) == [k \in 1..Len(hs) |-> NormalizeHeader(hs[k])] \o <<>>

\* a find that takes the first header matching either way
FindHeaderAnyMatch(ns, target) ==
    LET any == {k \in 1..Len(ns) : ns[k] = target \/ Includes(ns[k], target)}
    IN  IF any # {} THEN Least(any) ELSE 0

\* normalized.find(h => h.n === target) || normalized.find(h => h.n.includes(target)):
\* the position found, 0 for undefined
FindHeader(ns, target) ==
    LET exact == {k \in 1..Len(ns) : ns[k] = target}
        part  == {k \in 1..Len(ns) : Includes(ns[k], target)}
    IN  IF exact # {} THEN Least(exact)
        ELSE IF part # {} THEN Least(part)
        ELSE 0

\* the loop over the candidates, returning at the first one found
RECURSIVE PickLoop(_, _, _)
PickLoop(hs, ns, cands) ==
    IF cands = <<>> THEN NULL
    ELSE LET found == FindHeader(ns, NormalizeHeader(Head(cands)))
         IN  IF found # 0 THEN hs[found] ELSE PickLoop(hs, ns, Tail(cands))

\* a pickColumn that looks for exact matches of all candidates before any
\* substring match
RECURSIVE PickExact(_, _)
PickExact(hs, cands) ==
    IF cands = <<>> THEN NULL
    ELSE LET exact == {k \in 1..Len(hs) :
                          NormalizeHeader(hs[k]) = NormalizeHeader(Head(cands))}
         IN  IF exact # {} THEN hs[Least(exact)] ELSE PickExact(hs, Tail(cands))

RECURSIVE PickPart(_, _)
PickPart(hs, cands) ==
    IF cands = <<>> THEN NULL
    ELSE LET part == {k \in 1..Len(hs) :
                         Includes(NormalizeHeader(hs[k]), NormalizeHeader(Head(cands)))}
         IN  IF part # {} THEN hs[Least(part)] ELSE PickPart(hs, Tail(cands))

PickColumnTwoPasses(hs, cands) ==
    IF PickExact(hs, cands) # NULL THEN PickExact(hs, cands) ELSE PickPart(hs, cands)

\* pickColumn
PickColumn(hs, cands) == PickLoop(hs, NormalizedHeaders(hs), cands)

\* a string or null used as a condition
Truthy(x) == x # NULL /\ x # Empty

(***************************************************************************)
(* Numbers                                                                 *)
(*                                                                         *)
(* A finite JavaScript number is modelled as the exact fraction <<n, d>>   *)
(* in lowest terms with d > 0 (-0 is identified with 0); the values met    *)
(* here are small, so the rounding of doubles does not change an order or  *)
(* an equality.  NaN and the infinities are values of their own.           *)
(***************************************************************************)
NaN == <<"NaN">>
PosInfinity == <<"Infinity">>
NegInfinity == <<"-Infinity">>

\* Number.isFinite
IsFinite(x) == x \notin {NaN, PosInfinity, NegInfinity}

Abs(n) == IF n < 0 THEN -n ELSE n

RECURSIVE Gcd(_, _)
Gcd(a, b) == IF b = 0 THEN a ELSE Gcd(b, a % b)

\* the number n/d, d # 0
Frac(n, d) ==
    LET g == Gcd(Abs(n), Abs(d))
        sg == IF d < 0 THEN -1 ELSE 1
    IN  <<sg * (n \div g), Abs(d) \div g>>

Zero == <<0, 1>>

Int2Num(k) == <<k, 1>>

\* a + b, a / b, a > b, a >= b on finite numbers
Plus(a, b) == Frac(a[1] * b[2] + b[1] * a[2], a[2] * b[2])

Divide(a, b) ==
    IF b[1] # 0 THEN Frac(a[1] * b[2], a[2] * b[1])
    ELSE IF a[1] = 0 THEN NaN
    ELSE IF a[1] > 0 THEN PosInfinity
    ELSE NegInfinity

Greater(a, b) == a[1] * b[2] > b[1] * a[2]

AtLeast(a, b) == a[1] * b[2] >= b[1] * a[2]

RECURSIVE Pow(_, _)
Pow(b, k) == IF k = 0 THEN 1 ELSE b * Pow(b, k - 1)

(***************************************************************************)
(* Number(string): the StringToNumber conversion of ECMAScript             *)
(***************************************************************************)
DigitChars ==
    <<"0", "1", "2", "3", "4", "5", "6", "7", "8", "9",
      "a", "b", "c", "d", "e", "f">>

\* the value of a digit character, upper-case hexadecimal digits included
DigitValue ==
    [c \in Range(DigitChars) \cup {"A", "B", "C", "D", "E", "F"} |->
        CHOOSE v \in 0..15 : DigitChars[v + 1] = ToLower(c)]

DigitsOf(base) == {c \in DOMAIN DigitValue : DigitValue[c] < base}

\* a non-empty run of digits of the base
IsDigits(s, base) == s # <<>> /\ \A k \in DOMAIN s : s[k] \in DigitsOf(base)

\* the value of a run of digits (0 for the empty run)
RECURSIVE DigitsValue(_, _)
DigitsValue(s, base) ==
    IF s = <<>> THEN 0
    ELSE base * DigitsValue(SubSeq(s, 1, Len(s) - 1), base)
             + DigitValue[Last(s)]

\* the first position of s holding a character of cs, 0 when there is none
IndexOfAny(s, cs) ==
    IF \E k \in DOMAIN s : s[k] \in cs
    THEN Least({k \in DOMAIN s : s[k] \in cs})
    ELSE 0

HasSign(s) == s # <<>> /\ Head(s) \in {"+", "-"}

StripSign(s) == IF HasSign(s) THEN Tail(s) ELSE s

SignOf(s) == IF s # <<>> /\ Head(s) = "-" THEN -1 ELSE 1

\* 0x, 0o, 0b prefixes of NonDecimalIntegerLiteral and their bases
BaseOfPrefix(s) ==
    IF Len(s) < 2 \/ s[1] # "0" THEN 0
    ELSE IF s[2] \in {"x", "X"} THEN 16
    ELSE IF s[2] \in {"o", "O"} THEN 8
    ELSE IF s[2] \in {"b", "B"} THEN 2
    ELSE 0

IsNonDecimal(s) ==
    BaseOfPrefix(s) # 0 /\ IsDigits(SubSeq(s, 3, Len(s)), BaseOfPrefix(s))

\* the parts of an unsigned decimal literal: digits before the point, digits
\* after it, and the exponent part after e or E
DecimalParts(u) ==
    LET e == IndexOfAny(u, {"e", "E"})
        m == IF e = 0 THEN u ELSE SubSeq(u, 1, e - 1)
        p == IndexOfAny(m, {"."})
    IN  [int |-> IF p = 0 THEN m ELSE SubSeq(m, 1, p - 1),
         frac |-> IF p = 0 THEN Empty ELSE SubSeq(m, p + 1, Len(m)),
         point |-> p # 0,
         hasExp |-> e # 0,
         exp |-> IF e = 0 THEN Empty ELSE SubSeq(u, e + 1, Len(u))]

\* StrUnsignedDecimalLiteral other than Infinity:
\* digits [. [digits]] [exp]  |  . digits [exp]
IsUnsignedDecimal(u) ==
    LET ps == DecimalParts(u)
    IN  /\ \A k \in DOMAIN ps.int : ps.int[k] \in DigitsOf(10)
        /\ \A k \in DOMAIN ps.frac : ps.frac[k] \in DigitsOf(10)
        /\ ps.int # Empty \/ ps.frac # Empty
        /\ ps.hasExp => IsDigits(StripSign(ps.exp), 10)

UnsignedDecimalValue(u) ==
    LET ps == DecimalParts(u)
        m == DigitsValue(ps.int \o ps.frac, 10)
        e == SignOf(ps.exp) * DigitsValue(StripSign(ps.exp), 10)
             - Len(ps.frac)
    IN  IF e >= 0 THEN Frac(m * Pow(10, e), 1) ELSE Frac(m, Pow(10, -e))

InfinityLiteral == <<"I", "n", "f", "i", "n", "i", "t", "y">>

StringToNumber(s) ==
    LET t == Trim(s)
        u == StripSign(t)
    IN  IF t = Empty THEN Zero
        ELSE IF IsNonDecimal(t)
             THEN Int2Num(DigitsValue(SubSeq(t, 3, Len(t)), BaseOfPrefix(t)))
        ELSE IF u = InfinityLiteral
             THEN (IF SignOf(t) = 1 THEN PosInfinity ELSE NegInfinity)
        ELSE IF IsUnsignedDecimal(u)
             THEN LET v == UnsignedDecimalValue(u)
                  IN  <<SignOf(t) * v[1], v[2]>>
        ELSE NaN

(***************************************************************************)
(* parseNumber                                                             *)
(***************************************************************************)
\* value.replace(/[cs]/g, '')
Remove(s, cs) == SelectSeq(s, LAMBDA c : c \notin cs)

\* the variant that leaves the thousands separators in place
ParseNumberKeepingCommas(v) ==
    IF ~Truthy(v) THEN NULL
    ELSE LET cleaned == Trim(Remove(v, {"$", "%"}))
             n == StringToNumber(cleaned)
         IN  IF cleaned = Empty THEN NULL
             ELSE IF IsFinite(n) THEN n ELSE NULL

ParseNumber(v) ==
    IF ~Truthy(v) THEN NULL
    ELSE LET cleaned == Trim(Remove(Remove(v, {"$", ",", "%"}), {","}))
             n == StringToNumber(cleaned)
         IN  IF cleaned = Empty THEN NULL
             ELSE IF IsFinite(n) THEN n ELSE NULL

\* the cell texts parseNumber is applied to
MaxNumLen == 3

NumAlphabet == {"0", "1", "5", ".", "-", "+", "$", "%", COMMA, SP, "n"}

NumTexts == UNION {[1..n -> NumAlphabet] : n \in 0..MaxNumLen}

NumDollars == <<"$", "1", ",", "2", "3", "4", ".", "5", "0">>
NumPercent == <<"1", "2", "%">>
NumNotAvailable == <<"n", "/", "a">>
NumExponent == <<"1", ".", "5", "e", "2">>
NumHex == <<"0", "x", "1", "F">>

NumExamples ==
    {NumDollars, NumPercent, NumNotAvailable, NumExponent, NumHex,
     InfinityLiteral, <<"-">> \o InfinityLiteral, <<SP, TAB, LF>>}

\* parseNumber is about to be called on a cell text
InitNum ==
    /\ value \in NumTexts \cup NumExamples
    /\ number = NULL
    /\ pc = "number"
    /\ text = Empty
    /\ i = 1
    /\ currentField = Empty
    /\ currentRow = <<>>
    /\ inQuotes = FALSE
    /\ rows = <<>>
    /\ headers = <<>>
    /\ mapped = <<>>
    /\ labelCol = NULL
    /\ sessionsCol = NULL
    /\ conversionsCol = NULL
    /\ labels = <<>>
    /\ AggIdle
    /\ UiIdle

ParseNumberCall ==
    /\ pc = "number"
    /\ number' = ParseNumber(value)
    /\ pc' = "numbered"
    /\ UNCHANGED <<text, i, currentField, currentRow, inQuotes, rows, headers,
                   mapped, labelCol, sessionsCol, conversionsCol, labels,
                   value>>
    /\ UNCHANGED aggVars
    /\ UNCHANGED uiVars

NextNum == ParseNumberCall

SpecNum == InitNum /\ [][NextNum]_vars

(***************************************************************************)
(* computeDashboard                                                        *)
(***************************************************************************)
\* 'page', 'page title', 'title', 'url', 'page url', 'campaign', 'source', 'name'
LabelCandidates ==
    << <<"p", "a", "g", "e">>,
       <<"p", "a", "g", "e", SP, "t", "i", "t", "l", "e">>,
       <<"t", "i", "t", "l", "e">>,
       <<"u", "r", "l">>,
       <<"p", "a", "g", "e", SP, "u", "r", "l">>,
       <<"c", "a", "m", "p", "a", "i", "g", "n">>,
       <<"s", "o", "u", "r", "c", "e">>,
       <<"n", "a", "m", "e">> >>

\* 'sessions', 'visits', 'pageviews', 'views'
SessionsCandidates ==
    << <<"s", "e", "s", "s", "i", "o", "n", "s">>,
       <<"v", "i", "s", "i", "t", "s">>,
       <<"p", "a", "g", "e", "v", "i", "e", "w", "s">>,
       <<"v", "i", "e", "w", "s">> >>

\* 'submissions', 'conversions', 'contacts', 'new contacts', 'form submissions'
ConversionsCandidates ==
    << <<"s", "u", "b", "m", "i", "s", "s", "i", "o", "n", "s">>,
       <<"c", "o", "n", "v", "e", "r", "s", "i", "o", "n", "s">>,
       <<"c", "o", "n", "t", "a", "c", "t", "s">>,
       <<"n", "e", "w", SP, "c", "o", "n", "t", "a", "c", "t", "s">>,
       <<"f", "o", "r", "m", SP, "s", "u", "b", "m", "i", "s", "s", "i", "o", "n", "s">> >>

\* '(unknown)'
Unknown == <<"(", "u", "n", "k", "n", "o", "w", "n", ")">>

\* headers[0], undefined for an empty list
FirstHeader(hs) == IF Len(hs) > 0 THEN hs[1] ELSE NULL

\* a || b
OrElse(a, b) == IF Truthy(a) THEN a ELSE b

\* pickColumn(headers, [...]) || headers[0] || null
LabelColumn(hs) ==
    OrElse(OrElse(PickColumn(hs, LabelCandidates), FirstHeader(hs)), NULL)

\* labelCol ? (r[labelCol] || '(unknown)') : '(unknown)'
LabelOf(col, r) == IF Truthy(col) THEN OrElse(r[col], Unknown) ELSE Unknown

\* the variant that counts 1 for every row when the column is absent
NumberOfCountingRows(col, r) ==
    IF Truthy(col)
    THEN LET n == ParseNumber(r[col]) IN IF n = NULL THEN Zero ELSE n
    ELSE Int2Num(1)

\* sessionsCol ? (parseNumber(r[sessionsCol]) ?? 0) : 0
NumberOf(col, r) ==
    IF Truthy(col)
    THEN LET n == ParseNumber(r[col]) IN IF n = NULL THEN Zero ELSE n
    ELSE Zero

\* the variant of the rate that divides whatever the traffic
RateOfAlwaysDividing(sessions, conversions) == Divide(conversions, sessions)

\* sessions > 0 ? conversions / sessions : 0
RateOf(sessions, conversions) ==
    IF Greater(sessions, Zero) THEN Divide(conversions, sessions) ELSE Zero

\* the callback of rows.map: one enriched row
Enrich(lc, sc, cc, r) ==
    LET sessions == NumberOf(sc, r)
        conversions == NumberOf(cc, r)
    IN  [label |-> LabelOf(lc, r),
         sessions |-> sessions,
         conversions |-> conversions,
         rate |-> RateOf(sessions, conversions)]

\* items.reduce((sum, r) => sum + r[f], 0)
RECURSIVE SumOf(_, _)
SumOf(items, f) ==
    IF items = <<>> THEN Zero
    ELSE Plus(SumOf(SubSeq(items, 1, Len(items) - 1), f), Last(items)[f])

\* the variant of the insertion that puts x before the elements of equal key,
\* as an unstable sort may
RECURSIVE InsertDescBeforeEqual(_, _, _)
InsertDescBeforeEqual(sorted, x, f) ==
    IF sorted = <<>> THEN <<x>>
    ELSE IF AtLeast(x[f], Head(sorted)[f]) THEN <<x>> \o sorted
    ELSE <<Head(sorted)>> \o InsertDescBeforeEqual(Tail(sorted), x, f)

\* the place of x in a list sorted by descending f: after every element that
\* does not compare below it (the comparator b[f] - a[f] is 0 on equal keys
\* and Array.prototype.sort is stable)
RECURSIVE InsertDesc(_, _, _)
InsertDesc(sorted, x, f) ==
    IF sorted = <<>> THEN <<x>>
    ELSE IF Greater(x[f], Head(sorted)[f]) THEN <<x>> \o sorted
    ELSE <<Head(sorted)>> \o InsertDesc(Tail(sorted), x, f)

\* [...items].sort((a, b) => b[f] - a[f])
RECURSIVE SortDesc(_, _)
SortDesc(items, f) ==
    IF items = <<>> THEN <<>>
    ELSE InsertDesc(SortDesc(SubSeq(items, 1, Len(items) - 1), f),
                    Last(items), f)

\* rows shown in each ranking, and the traffic a row needs to be ranked by rate
TopCount == 6

MinSessions == 25

\* the variant of the filter that asks for more than the floor
EligibleAbove(items) ==
    SelectSeq(items, LAMBDA r : Greater(r.sessions, Int2Num(MinSessions)))

\* .filter(r => r.sessions >= 25)
Eligible(items) ==
    SelectSeq(items, LAMBDA r : AtLeast(r.sessions, Int2Num(MinSessions)))

\* getTop: items.slice(0, count)
GetTop(items, count) ==
    SubSeq(items, 1, IF Len(items) < count THEN Len(items) ELSE count)

\* the KPI record { totalSessions, totalConversions, conversionRate, rows }
\* and its fields (a tuple, so that it can be told from null)
Kpis(totalSessions, totalConversions, conversionRate, rowCount) ==
    <<totalSessions, totalConversions, conversionRate, rowCount>>

TotalSessions(k) == k[1]

TotalConversions(k) == k[2]

ConversionRate(k) == k[3]

RowCount(k) == k[4]

\* rows.map(r => ...): the enriched rows
EnrichAll(lc, sc, cc, rs) ==
    [k \in 1..Len(rs) |-> Enrich(lc, sc, cc, rs[k])] \o <<>>

\* the variant of the traffic ranking that does not sort
TopBySessionsUnsorted(en) == GetTop(en, TopCount)

\* getTop(bySessions, 6)
TopBySessions(en) == GetTop(SortDesc(en, "sessions"), TopCount)

\* the variant of the rate ranking that ranks every row
TopByRateUnfiltered(en) == GetTop(SortDesc(en, "rate"), TopCount)

\* getTop(byRate, 6)
TopByRate(en) == GetTop(SortDesc(Eligible(en), "rate"), TopCount)

\* the variant of the KPIs that totals the rows of the traffic ranking only
KpisOverTopRows(en, rowCount) ==
    LET top == TopBySessions(en)
        totals == <<SumOf(top, "sessions"), SumOf(top, "conversions")>>
    IN  Kpis(totals[1], totals[2], RateOf(totals[1], totals[2]), rowCount)

\* { totalSessions, totalConversions, conversionRate, rows: rows.length }
KpisOf(en, rowCount) ==
    LET totals == <<SumOf(en, "sessions"), SumOf(en, "conversions")>>
    IN  Kpis(totals[1], totals[2], RateOf(totals[1], totals[2]), rowCount)

(***************************************************************************)
(* Parsed tables handed to computeDashboard                                *)
(***************************************************************************)
HdrBlank == Empty
HdrN == <<"n">>
HdrPage == <<"P", "a", "g", "e">>
HdrPageUrl == <<"P", "a", "g", "e", SP, "U", "R", "L">>
HdrTitle == <<"T", "i", "t", "l", "e">>
HdrPageTitle == <<"P", "a", "g", "e", SP, "T", "i", "t", "l", "e">>
HdrLandingPage == <<"L", "a", "n", "d", "i", "n", "g", SP, "P", "a", "g", "e">>
HdrSessions == <<"S", "e", "s", "s", "i", "o", "n", "s">>
HdrViews == <<"V", "i", "e", "w", "s">>
HdrPageViews == <<"P", "a", "g", "e", SP, "V", "i", "e", "w", "s">>
HdrContacts == <<"C", "o", "n", "t", "a", "c", "t", "s">>
HdrNewContacts == <<"N", "e", "w", SP, "C", "o", "n", "t", "a", "c", "t", "s">>

HeaderPool ==
    {HdrBlank, HdrN, HdrPage, HdrPageUrl, HdrTitle, HdrPageTitle,
     HdrLandingPage, HdrSessions, HdrViews, HdrPageViews, HdrContacts,
     HdrNewContacts}

MaxHeaders == 2

MaxRows == 1

\* ["Page Title", "Page URL", "Sessions"]
HeadersTitleUrlSessions == <<HdrPageTitle, HdrPageUrl, HdrSessions>>

\* parseCsv returns at least one header
HeaderLists ==
    UNION {[1..n -> HeaderPool] : n \in 1..MaxHeaders}
        \cup {HeadersTitleUrlSessions}

Cells == {Empty, <<"x">>}

\* the row mappings parseCsv can return for headers hs: a trimmed value per
\* header, not all of them ''
RowsOver(hs) == {r \in [Range(hs) -> Cells] : \E h \in Range(hs) : r[h] # Empty}

RowLists(hs) == UNION {[1..n -> RowsOver(hs)] : n \in 0..MaxRows}

\* tables with numeric cells: a label, a traffic and a conversion column, or
\* two of them
HeadersPageSessionsContacts == <<HdrPage, HdrSessions, HdrContacts>>
HeadersPageContacts == <<HdrPage, HdrContacts>>
HeadersPageSessions == <<HdrPage, HdrSessions>>

NumHeaderLists ==
    {HeadersPageSessionsContacts, HeadersPageContacts, HeadersPageSessions}

LabelCells == {Empty, <<"a">>}

SessionCells ==
    {Empty, <<"0">>, <<"2", "4">>, <<"2", "5">>, <<"4", "0">>, <<"-", "5">>,
     <<"n", "/", "a">>}

ConversionCells == {Empty, <<"3">>, <<"1", "0">>, <<"n", "/", "a">>}

CellsOf(h) ==
    IF h = HdrPage THEN LabelCells
    ELSE IF h = HdrSessions THEN SessionCells
    ELSE ConversionCells

\* the row mappings over hs with a cell of its column's kind under every
\* header, not all of them ''
NumRowsOver(hs) ==
    {r \in [Range(hs) -> LabelCells \cup SessionCells \cup ConversionCells] :
        /\ \A h \in Range(hs) : r[h] \in CellsOf(h)
        /\ \E h \in Range(hs) : r[h] # Empty}

NumRowLists(hs) == UNION {[1..n -> NumRowsOver(hs)] : n \in 0..MaxRows}

\* longer tables, for the cut-off of the rankings: row k is labelled by the
\* k-th letter and holds one of three pairs of traffic and conversions
\* (rates 1/10 and 1/5 above the traffic floor, 9/10 below it)
MaxRankRows == 7

RankPairs ==
    {<< <<"3", "0">>, <<"3">> >>,
     << <<"5", "0">>, <<"1", "0">> >>,
     << <<"1", "0">>, <<"9">> >>}

RankRow(hs, k, pair) ==
    [h \in Range(hs) |->
        IF h = HdrPage THEN <<LowerCase[k]>>
        ELSE IF h = HdrSessions THEN pair[1]
        ELSE pair[2]]

\* the pairs of the rows of a longer table
RankChoices == UNION {[1..n -> RankPairs] : n \in 0..MaxRankRows}

RankTable(hs, ps) == [k \in 1..Len(ps) |-> RankRow(hs, k, ps[k])]

\* the text of the scenario: three pages, of which /contact is below the
\* traffic floor
TextScenario ==
    <<"P", "a", "g", "e", ",", "S", "e", "s", "s", "i", "o", "n", "s", ",",
      "S", "u", "b", "m", "i", "s", "s", "i", "o", "n", "s", LF,
      "/", "p", "r", "i", "c", "i", "n", "g", ",", "5", "0", "0", ",",
      "2", "5", LF,
      "/", "a", "b", "o", "u", "t", ",", "1", "0", "0", "0", ",", "5", LF,
      "/", "c", "o", "n", "t", "a", "c", "t", ",", "2", "0", ",", "1", "0">>

\* handleFileUpload has parsed a file and is about to call computeDashboard
InitDash ==
    /\ headers \in HeaderLists
    /\ mapped \in RowLists(headers)
    /\ pc = "parsed"
    /\ text = Empty
    /\ i = 1
    /\ currentField = Empty
    /\ currentRow = <<>>
    /\ inQuotes = FALSE
    /\ rows = <<>>
    /\ labelCol = NULL
    /\ sessionsCol = NULL
    /\ conversionsCol = NULL
    /\ labels = <<>>
    /\ NumIdle
    /\ AggIdle
    /\ UiUploading

\* computeDashboard(headers, rows)
ComputeDashboard ==
    /\ pc = "parsed"
    /\ labelCol' = LabelColumn(headers)
    /\ sessionsCol' = PickColumn(headers, SessionsCandidates)
    /\ conversionsCol' = PickColumn(headers, ConversionsCandidates)
    /\ enriched' = EnrichAll(labelCol', sessionsCol', conversionsCol', mapped)
    /\ labels' = [k \in 1..Len(mapped) |-> enriched'[k].label]
    /\ kpis' = KpisOf(enriched', Len(mapped))
    /\ topBySessions' = TopBySessions(enriched')
    /\ topByRate' = TopByRate(enriched')
    /\ pc' = "dash"
    /\ UNCHANGED <<text, i, currentField, currentRow, inQuotes, rows, headers,
                   mapped>>
    /\ UNCHANGED numVars
    /\ UNCHANGED uiVars

NextDash == ComputeDashboard

SpecDash == InitDash /\ [][NextDash]_vars

\* the same call on a table with numeric cells
InitAgg ==
    /\ \/ /\ headers \in NumHeaderLists
          /\ mapped \in NumRowLists(headers)
       \/ /\ headers \in {HeadersPageSessionsContacts, HeadersPageContacts}
          /\ \E ps \in RankChoices : mapped = RankTable(headers, ps)
       \/ /\ headers = ParseCsv(TextScenario).headers
          /\ mapped = ParseCsv(TextScenario).rows
    /\ pc = "parsed"
    /\ text = Empty
    /\ i = 1
    /\ currentField = Empty
    /\ currentRow = <<>>
    /\ inQuotes = FALSE
    /\ rows = <<>>
    /\ labelCol = NULL
    /\ sessionsCol = NULL
    /\ conversionsCol = NULL
    /\ labels = <<>>
    /\ NumIdle
    /\ AggIdle
    /\ UiUploading

SpecAgg == InitAgg /\ [][NextDash]_vars

(***************************************************************************)
(* The component: handleFileUpload, generateAI and the buttons             *)
(***************************************************************************)
\* text.length > 2_000_000 ? text.substring(0, 2_000_000) : text
MaxTextChars == 2000000

Truncated(t) == IF Len(t) > MaxTextChars THEN SubSeq(t, 1, MaxTextChars) ELSE t

\* a File: its name and the text file.text() resolves to
FileName(f) == f[1]

FileText(f) == f[2]

\* s.substring(0, n)
Substring0(s, n) == SubSeq(s, 1, IF Len(s) < n THEN Len(s) ELSE n)

\* parts.join(sep), computed by halves
RECURSIVE Join(_, _)
Join(parts, sep) ==
    IF parts = <<>> THEN Empty
    ELSE IF Len(parts) = 1 THEN parts[1]
    ELSE LET half == Len(parts) \div 2
         IN  Join(SubSeq(parts, 1, half), sep) \o sep
                 \o Join(SubSeq(parts, half + 1, Len(parts)), sep)

\* the characters JSON.stringify writes for one character of a string (of
\* the control characters, those that can occur here)
JsonChar(c) ==
    IF c = QUOTE THEN <<"\\", QUOTE>>
    ELSE IF c = "\\" THEN <<"\\", "\\">>
    ELSE IF c = LF THEN <<"\\", "n">>
    ELSE IF c = CR THEN <<"\\", "r">>
    ELSE IF c = TAB THEN <<"\\", "t">>
    ELSE <<c>>

\* the variant that writes the string between quotes without escaping
JsonStringUnescaped(s) == <<QUOTE>> \o s \o <<QUOTE>>

\* JSON.stringify(s) for a string s
JsonString(s) ==
    <<QUOTE>> \o Join([k \in 1..Len(s) |-> JsonChar(s[k])], Empty)
        \o <<QUOTE>>

\* rows sampled and characters sent
SampleRows == 200

SampleChars == 50000

\* csvHeaders.map(h => JSON.stringify(r[h] || '')).join(',')
SampleLine(hs, r) ==
    Join([k \in 1..Len(hs) |-> JsonString(OrElse(r[hs[k]], Empty))], <<COMMA>>)

\* `${headerLine}\n${sampleRows}`
Sample(hs, rs) ==
    LET first == SubSeq(rs, 1, IF Len(rs) < SampleRows THEN Len(rs)
                                ELSE SampleRows)
    IN  Join(hs, <<COMMA>>) \o <<LF>>
            \o Join([k \in 1..Len(first) |-> SampleLine(hs, first[k])], <<LF>>)

\* 'Error parsing or analyzing file: ', 'Unknown error',
\* 'Failed to generate AI insights.', 'Copy failed. Please select the prompt
\* and copy manually.': messages are told apart, their text is not modelled
MsgParsePrefix == <<"Error parsing or analyzing file: ">>

MsgUnknown == <<"Unknown error">>

MsgAiFailed == <<"Failed to generate AI insights.">>

MsgCopyFailed == <<"Copy failed. Please select the prompt and copy manually.">>

\* e.message of a rejection: absent, or some text
Rejections == {Empty, <<"reason">>}

\* what analyzeHubspotData resolves to: an analysis, or null
AnalysisA == <<"analysis A">>
AnalysisB == <<"analysis B">>

AiResults == {AnalysisA, AnalysisB, NULL}

\* the files a user uploads: a file of two pages, one of headers only, an
\* empty one, one without a traffic column and one with a quoted cell
TextTwoPages ==
    <<"P", "a", "g", "e", ",", "V", "i", "e", "w", "s", ",",
      "C", "o", "n", "t", "a", "c", "t", "s", LF,
      "a", ",", "3", "0", ",", "3", LF, "b", ",", "1", "0", ",", "9">>

TextHeadersOnly == <<"P", "a", "g", "e", ",", "V", "i", "e", "w", "s", LF>>

TextNoTraffic == <<"n", ",", "C", "o", "n", "t", "a", "c", "t", "s", LF,
                   "a", ",", "3">>

TextQuotedCell ==
    <<"P", "a", "g", "e", ",", "V", "i", "e", "w", "s", LF,
      QUOTE, "a", QUOTE, QUOTE, ",", LF, "b", QUOTE, ",", "4", "0">>

UiTexts ==
    {TextTwoPages, TextHeadersOnly, Empty, TextNoTraffic, TextQuotedCell}

UiFiles == {<<<<"f">>, t>> : t \in UiTexts}

\* the component is mounted and nothing has been uploaded
InitUi ==
    /\ UiIdle
    /\ AggIdle
    /\ NumIdle
    /\ pc = "idle"
    /\ text = NULL
    /\ i = 1
    /\ currentField = Empty
    /\ currentRow = <<>>
    /\ inQuotes = FALSE
    /\ rows = <<>>
    /\ headers = <<>>
    /\ mapped = <<>>
    /\ labelCol = NULL
    /\ sessionsCol = NULL
    /\ conversionsCol = NULL
    /\ labels = <<>>

\* the locals of parseCsv and computeDashboard
localVars ==
    <<i, currentField, currentRow, inQuotes, rows, labelCol, sessionsCol,
      conversionsCol, labels, enriched>>

\* handleFileUpload with a file chosen, to the await of file.text(); the
\* input is rendered while no analysis is shown and disabled while loading
HandleFileUpload ==
    /\ pc = "idle"
    /\ analysis = NULL
    /\ ~loading
    /\ \E f \in UiFiles :
          /\ file' = f
          /\ fileName' = FileName(f)
    /\ loading' = TRUE
    /\ errorMessage' = NULL
    /\ analysis' = NULL
    /\ csvHeaders' = <<>>
    /\ csvRows' = <<>>
    /\ kpis' = NULL
    /\ topBySessions' = <<>>
    /\ topByRate' = <<>>
    /\ text' = NULL
    /\ UNCHANGED <<pc, headers, mapped, isGeneratingAI, request>>
    /\ UNCHANGED localVars
    /\ UNCHANGED numVars

\* the variant of the next action that does not store the parsed rows
FileTextResolvesKeepingRows ==
    /\ pc = "idle"
    /\ file # NULL
    /\ text' = Truncated(FileText(file))
    /\ headers' = ParseCsv(text').headers
    /\ mapped' = ParseCsv(text').rows
    /\ csvHeaders' = headers'
    /\ file' = NULL
    /\ pc' = "parsed"
    /\ UNCHANGED <<fileName, loading, errorMessage, analysis, csvRows,
                   isGeneratingAI, request, kpis, topBySessions, topByRate>>
    /\ UNCHANGED localVars
    /\ UNCHANGED numVars

\* file.text() resolves: the text is cut, parsed and the table stored
FileTextResolves ==
    /\ pc = "idle"
    /\ file # NULL
    /\ text' = Truncated(FileText(file))
    /\ headers' = ParseCsv(text').headers
    /\ mapped' = ParseCsv(text').rows
    /\ csvHeaders' = headers'
    /\ csvRows' = mapped'
    /\ file' = NULL
    /\ pc' = "parsed"
    /\ UNCHANGED <<fileName, loading, errorMessage, analysis, isGeneratingAI,
                   request, kpis, topBySessions, topByRate>>
    /\ UNCHANGED localVars
    /\ UNCHANGED numVars

\* finally { setLoading(false) } after computeDashboard
UploadFinally ==
    /\ pc = "dash"
    /\ loading' = FALSE
    /\ pc' = "idle"
    /\ UNCHANGED <<text, headers, mapped, fileName, errorMessage, analysis,
                   csvHeaders, csvRows, isGeneratingAI, file, request>>
    /\ UNCHANGED localVars
    /\ UNCHANGED numVars
    /\ UNCHANGED <<kpis, topBySessions, topByRate>>

\* file.text() rejects: the catch and the finally of handleFileUpload
FileTextRejects ==
    /\ pc = "idle"
    /\ file # NULL
    /\ \E m \in Rejections :
          errorMessage' = MsgParsePrefix \o OrElse(m, MsgUnknown)
    /\ loading' = FALSE
    /\ file' = NULL
    /\ UNCHANGED <<text, pc, headers, mapped, fileName, analysis, csvHeaders,
                   csvRows, isGeneratingAI, request>>
    /\ UNCHANGED localVars
    /\ UNCHANGED numVars
    /\ UNCHANGED <<kpis, topBySessions, topByRate>>

\* the variant of the next definition without the check of isGeneratingAI
GenerateAIProceedsWhileGenerating ==
    /\ Truthy(fileName)
    /\ Len(csvRows) # 0

\* generateAI gets past its two early returns
GenerateAIProceeds ==
    /\ Truthy(fileName)
    /\ Len(csvRows) # 0
    /\ ~isGeneratingAI

\* generateAI to the await of analyzeHubspotData, or to one of its early
\* returns; its button is rendered with the dashboard while no analysis is
\* shown
GenerateAI ==
    /\ pc = "idle"
    /\ analysis = NULL
    /\ kpis # NULL
    /\ IF GenerateAIProceeds
       THEN /\ isGeneratingAI' = TRUE
            /\ errorMessage' = NULL
            /\ request' = Substring0(Sample(csvHeaders, csvRows), SampleChars)
       ELSE UNCHANGED <<isGeneratingAI, errorMessage, request>>
    /\ UNCHANGED <<text, pc, headers, mapped, fileName, loading, analysis,
                   csvHeaders, csvRows, file>>
    /\ UNCHANGED localVars
    /\ UNCHANGED numVars
    /\ UNCHANGED <<kpis, topBySessions, topByRate>>

\* analyzeHubspotData resolves: the analysis, if any, is stored and handed
\* to the parent (whose callback leaves this component's state alone)
AiResolves ==
    /\ pc = "idle"
    /\ request # NULL
    /\ \E result \in AiResults :
          analysis' = IF result # NULL THEN result ELSE analysis
    /\ isGeneratingAI' = FALSE
    /\ request' = NULL
    /\ UNCHANGED <<text, pc, headers, mapped, fileName, loading, errorMessage,
                   csvHeaders, csvRows, file>>
    /\ UNCHANGED localVars
    /\ UNCHANGED numVars
    /\ UNCHANGED <<kpis, topBySessions, topByRate>>

\* analyzeHubspotData rejects (the version that awaits the model outside its
\* try): the catch and the finally of generateAI
AiRejects ==
    /\ pc = "idle"
    /\ request # NULL
    /\ \E m \in Rejections : errorMessage' = OrElse(m, MsgAiFailed)
    /\ isGeneratingAI' = FALSE
    /\ request' = NULL
    /\ UNCHANGED <<text, pc, headers, mapped, fileName, loading, analysis,
                   csvHeaders, csvRows, file>>
    /\ UNCHANGED localVars
    /\ UNCHANGED numVars
    /\ UNCHANGED <<kpis, topBySessions, topByRate>>

\* callAIProxy rejects (fetch fails, the response is not OK or is not JSON):
\* analyzeHubspotData catches it and resolves to null, so generateAI stores
\* nothing and runs its finally
AiProxyFails ==
    /\ pc = "idle"
    /\ request # NULL
    /\ isGeneratingAI' = FALSE
    /\ request' = NULL
    /\ UNCHANGED <<text, pc, headers, mapped, fileName, loading, errorMessage,
                   analysis, csvHeaders, csvRows, file>>
    /\ UNCHANGED localVars
    /\ UNCHANGED numVars
    /\ UNCHANGED <<kpis, topBySessions, topByRate>>

\* the New Report button of the analysis view
NewReport ==
    /\ pc = "idle"
    /\ analysis # NULL
    /\ analysis' = NULL
    /\ fileName' = NULL
    /\ UNCHANGED <<text, pc, headers, mapped, loading, errorMessage,
                   csvHeaders, csvRows, isGeneratingAI, file, request>>
    /\ UNCHANGED localVars
    /\ UNCHANGED numVars
    /\ UNCHANGED <<kpis, topBySessions, topByRate>>

\* the Dismiss button of the error banner
DismissError ==
    /\ pc = "idle"
    /\ Truthy(errorMessage)
    /\ errorMessage' = NULL
    /\ UNCHANGED <<text, pc, headers, mapped, fileName, loading, analysis,
                   csvHeaders, csvRows, isGeneratingAI, file, request>>
    /\ UNCHANGED localVars
    /\ UNCHANGED numVars
    /\ UNCHANGED <<kpis, topBySessions, topByRate>>

\* copyBreezePrompt when the clipboard refuses
CopyFails ==
    /\ pc = "idle"
    /\ analysis = NULL
    /\ errorMessage' = MsgCopyFailed
    /\ UNCHANGED <<text, pc, headers, mapped, fileName, loading, analysis,
                   csvHeaders, csvRows, isGeneratingAI, file, request>>
    /\ UNCHANGED localVars
    /\ UNCHANGED numVars
    /\ UNCHANGED <<kpis, topBySessions, topByRate>>

NextUi ==
    \/ HandleFileUpload
    \/ FileTextResolves
    \/ ComputeDashboard
    \/ UploadFinally
    \/ FileTextRejects
    \/ GenerateAI
    \/ AiResolves
    \/ AiRejects
    \/ AiProxyFails
    \/ NewReport
    \/ DismissError
    \/ CopyFails

SpecUi == InitUi /\ [][NextUi]_vars

\* the steps FileTextResolves and FileTextRejects, and the step
\* ComputeDashboard, told by the variables they always change
FileTextSettles == pc = "idle" /\ file # NULL /\ file' = NULL

DashboardComputed == pc = "parsed" /\ pc' = "dash"

\* the same component when a started upload runs on: file.text() settles
\* and the synchronous code after it runs to its end (requests to the AI
\* service and the user's clicks are not assumed to happen)
SpecUiFair ==
    /\ InitUi
    /\ [][NextUi]_vars
    /\ WF_file(FileTextSettles)
    /\ WF_pc(DashboardComputed)
    /\ WF_vars(UploadFinally)

(***************************************************************************)
(* generateAI on an uploaded table                                         *)
(***************************************************************************)
\* a header that was quoted in the file, and cells with the characters
\* JSON.stringify escapes or that would split a line
HdrQuoted == <<QUOTE, COMMA>>

SampleHeaderLists == {<<HdrN>>, <<HdrN, HdrN>>, <<HdrQuoted, HdrN>>}

SampleCells ==
    {Empty, <<QUOTE>>, <<"\\">>, <<"a", LF, "b">>, <<"a", COMMA, "b">>}

MaxSampleRows == 2

SampleRowsOver(hs) ==
    {r \in [Range(hs) -> SampleCells] : \E h \in Range(hs) : r[h] # Empty}

SampleRowLists(hs) ==
    UNION {[1..n -> SampleRowsOver(hs)] : n \in 1..MaxSampleRows}

\* tables beyond the limits of the sample: more rows than are sampled, and
\* rows whose cells make the sampled rows longer than what is sent; row k
\* holds k times "x", then "y"
ManyRows == 201

LongCell == 300

CellOfRow(k, len) == [j \in 1..len |-> IF j <= k THEN "x" ELSE "y"]

TableOf(n, len) == [k \in 1..n |-> [h \in {HdrN} |-> CellOfRow(k, len)]]

\* the enriched row of a row of TableOf: its label is the cell, and without
\* numeric columns its numbers are 0
PlainRow(r) ==
    [label |-> r[HdrN], sessions |-> Zero, conversions |-> Zero, rate |-> Zero]

\* a file has been uploaded and its dashboard is shown (the locals of the
\* finished calls are not kept)
InitSample ==
    /\ \/ /\ csvHeaders \in SampleHeaderLists
          /\ csvRows \in SampleRowLists(csvHeaders)
          /\ \E en \in {EnrichAll(LabelColumn(csvHeaders),
                                  PickColumn(csvHeaders, SessionsCandidates),
                                  PickColumn(csvHeaders, ConversionsCandidates),
                                  csvRows)} :
                /\ kpis = KpisOf(en, Len(csvRows))
                /\ topBySessions = TopBySessions(en)
                /\ topByRate = TopByRate(en)
       \/ /\ csvHeaders = <<HdrN>>
          /\ csvRows \in {TableOf(ManyRows, 2), TableOf(ManyRows, LongCell)}
          /\ kpis = Kpis(Zero, Zero, Zero, Len(csvRows))
          /\ topBySessions = [k \in 1..TopCount |-> PlainRow(csvRows[k])]
          /\ topByRate = <<>>
    /\ fileName = <<"f">>
    /\ loading = FALSE
    /\ errorMessage = NULL
    /\ analysis = NULL
    /\ isGeneratingAI = FALSE
    /\ file = NULL
    /\ request = NULL
    /\ pc = "idle"
    /\ text = NULL
    /\ i = 1
    /\ currentField = Empty
    /\ currentRow = <<>>
    /\ inQuotes = FALSE
    /\ rows = <<>>
    /\ headers = <<>>
    /\ mapped = <<>>
    /\ labelCol = NULL
    /\ sessionsCol = NULL
    /\ conversionsCol = NULL
    /\ labels = <<>>
    /\ enriched = <<>>
    /\ NumIdle

NextSample == GenerateAI

SpecSample == InitSample /\ [][NextSample]_vars

(***************************************************************************)
(* C8, C9, C10: column roles                                               *)
(***************************************************************************)
\* the normalized form of every header of the pool and of every candidate
NormalForm ==
    [s \in HeaderPool \cup Range(LabelCandidates) \cup Range(SessionsCandidates)
            \cup Range(ConversionsCandidates) |-> NormalizeHeader(s)]

\* header h matches candidate c exactly / by containing it, after normalizing
ExactMatch(h, c) == NormalForm[h] = NormalForm[c]
PartMatch(h, c) == Includes(NormalForm[h], NormalForm[c])
AnyMatch(h, c) == ExactMatch(h, c) \/ PartMatch(h, c)

\* the candidates of cands that some header of hs matches
Matching(hs, cands) ==
    {j \in 1..Len(cands) : \E k \in 1..Len(hs) : AnyMatch(hs[k], cands[j])}

\* the three roles computeDashboard resolves: the candidates and the result
\* of pickColumn (for the label, the column after the fallback)
Roles ==
    { [cands |-> LabelCandidates, col |-> labelCol, fallback |-> TRUE],
      [cands |-> SessionsCandidates, col |-> sessionsCol, fallback |-> FALSE],
      [cands |-> ConversionsCandidates, col |-> conversionsCol, fallback |-> FALSE] }

\* C8: pickColumn returns a header matching, exactly or as a substring, the
\* first candidate in priority order that any header matches, even when a
\* later candidate has an exact match (["Page URL", "Title"] gives the label
\* "Page URL"), and none when no candidate matches any header (the label role
\* then falls to its fallback, the other roles stay unresolved).
C8_FirstCandidateWins ==
    pc = "dash" =>
        /\ \A role \in Roles :
               LET m == Matching(headers, role.cands)
               IN  IF m = {}
                   THEN IF role.fallback
                        THEN role.col \in {FirstHeader(headers), NULL}
                        ELSE role.col = NULL
                   ELSE \E k \in 1..Len(headers) :
                            /\ role.col = headers[k]
                            /\ AnyMatch(headers[k], role.cands[Least(m)])
        /\ headers = <<HdrPageUrl, HdrTitle>> => labelCol = HdrPageUrl

\* a substring match of 'page' has won over the exact match of 'title'
C8_Witness ==
    /\ pc = "dash"
    /\ \E k \in 1..Len(headers) : ExactMatch(headers[k], LabelCandidates[3])
    /\ ~ExactMatch(labelCol, LabelCandidates[3])
    /\ PartMatch(labelCol, LabelCandidates[1])
    /\ ~ExactMatch(labelCol, LabelCandidates[1])
    /\ sessionsCol = NULL

\* C9: for the first candidate that matches, pickColumn returns the earliest
\* header equal to it after normalizing if there is one, whatever precedes it,
\* and otherwise the earliest header containing it; ["Page Title", "Page URL",
\* "Sessions"] gives the label "Page Title".
C9_ExactBeforeSubstring ==
    pc = "dash" =>
        /\ \A role \in Roles :
               LET m == Matching(headers, role.cands)
                   c == role.cands[Least(m)]
                   exact == {k \in 1..Len(headers) : ExactMatch(headers[k], c)}
                   part == {k \in 1..Len(headers) : PartMatch(headers[k], c)}
               IN  m # {} =>
                       role.col = IF exact # {} THEN headers[Least(exact)]
                                  ELSE headers[Least(part)]
        /\ headers = HeadersTitleUrlSessions => labelCol = HdrPageTitle

\* an exact match was preferred to a header that comes first and only
\* contains the candidate
C9_Witness ==
    /\ pc = "dash"
    /\ Len(headers) = 2
    /\ PartMatch(headers[1], LabelCandidates[1])
    /\ ~ExactMatch(headers[1], LabelCandidates[1])
    /\ labelCol = headers[2]
    /\ headers[1] # headers[2]

\* C10 as claimed: when no label candidate matches any header and there is a
\* header, the label of every row is its value for the header at position 0,
\* or "(unknown)" when that value is empty.
C10_FallbackToFirstHeader ==
    (pc = "dash" /\ Matching(headers, LabelCandidates) = {} /\ Len(headers) > 0) =>
        /\ Len(labels) = Len(mapped)
        /\ \A k \in 1..Len(mapped) :
               labels[k] = IF mapped[k][headers[1]] # Empty
                           THEN mapped[k][headers[1]]
                           ELSE Unknown

(***************************************************************************)
(* C11: parseNumber                                                        *)
(***************************************************************************)
Symbols == {"$", "%", COMMA}

\* a decimal numeral: an optional sign, then digits with at most one decimal
\* point among them and at least one digit
IsNumeral(s) ==
    LET u == IF s # <<>> /\ s[1] \in {"+", "-"} THEN Tail(s) ELSE s
    IN  /\ \A k \in DOMAIN u : u[k] \in Digits \cup {"."}
        /\ \E k \in DOMAIN u : u[k] \in Digits
        /\ Cardinality({k \in DOMAIN u : u[k] = "."}) <= 1

DecimalDigit == [c \in Digits |-> CHOOSE v \in 0..9 : DigitChars[v + 1] = c]

\* the value of a numeral by place value: the digit k places before the end
\* of the integer part weighs 10^k, the k-th digit after the point 1/10^k
NumeralValue(s) ==
    LET neg == s[1] = "-"
        u == IF s[1] \in {"+", "-"} THEN Tail(s) ELSE s
        ps == {k \in DOMAIN u : u[k] = "."}
        p == IF ps = {} THEN Len(u) + 1 ELSE CHOOSE k \in ps : TRUE
        f == IF ps = {} THEN 0 ELSE Len(u) - p
        weight(k) == IF k < p THEN Pow(10, p - 1 - k + f)
                     ELSE Pow(10, Len(u) - k)
        RECURSIVE sum(_)
        sum(k) == IF k = 0 THEN 0
                  ELSE sum(k - 1)
                       + (IF k = p THEN 0 ELSE DecimalDigit[u[k]] * weight(k))
        total == sum(Len(u))
    IN  Frac(IF neg THEN -total ELSE total, Pow(10, f))

\* C11: parseNumber returns none for the empty string, for white space only
\* and for a text that is empty once $ % , are removed and it is trimmed;
\* for a decimal numeral with $ % , inserted anywhere it returns the value of
\* the numeral, sign kept ("$1,234.50" is 1234.5, "12%" is 12); for a text
\* that is no finite number ("n/a", a text holding a letter, an infinity) it
\* returns none.
C11_ParseNumber ==
    pc = "numbered" =>
        /\ (\A k \in DOMAIN value : value[k] \in Symbols \cup WhiteSpace)
               => number = NULL
        /\ IsNumeral(Remove(value, Symbols))
               => number = NumeralValue(Remove(value, Symbols))
        /\ value = NumDollars => number = <<2469, 2>>
        /\ value = NumPercent => number = <<12, 1>>
        /\ value = NumNotAvailable => number = NULL
        /\ (\E k \in DOMAIN value : value[k] = "n") => number = NULL

\* "$1,234.50" has been parsed to 1234.5
C11_Witness ==
    pc = "numbered" /\ value = NumDollars /\ number = <<2469, 2>>

(***************************************************************************)
(* C12 .. C18: the aggregation                                             *)
(***************************************************************************)
HdrSubmissions ==
    <<"S", "u", "b", "m", "i", "s", "s", "i", "o", "n", "s">>

\* the headers of the tables of SpecAgg that name traffic and conversions
TrafficHeaders == {HdrSessions}

ConversionHeaders == {HdrContacts, HdrSubmissions}

\* the cells of the tables of SpecAgg
CellPool ==
    SessionCells \cup ConversionCells
        \cup {p[1] : p \in RankPairs} \cup {p[2] : p \in RankPairs}
        \cup UNION {{r[h] : h \in DOMAIN r} :
                       r \in Range(ParseCsv(TextScenario).rows)}

\* the number a cell stands for: its place value when it is a numeral, else 0
CellValue ==
    [c \in CellPool |-> IF IsNumeral(c) THEN NumeralValue(c) ELSE Zero]

\* the number row r holds under one of the headers hs, 0 without such a header
Expected(r, hs) ==
    IF DOMAIN r \cap hs = {} THEN Zero
    ELSE CellValue[r[CHOOSE h \in DOMAIN r \cap hs : TRUE]]

Aggregated == pc = "dash"

\* C12: every enriched row has the traffic and the conversions its cells
\* stand for, 0 for an absent or unparseable cell; its rate is a finite
\* number, conversions / traffic when traffic > 0 and 0 otherwise.
C12_RowRate ==
    Aggregated =>
        /\ Len(enriched) = Len(mapped)
        /\ \A k \in DOMAIN enriched :
              LET e == enriched[k]
              IN  /\ e.sessions = Expected(mapped[k], TrafficHeaders)
                  /\ e.conversions = Expected(mapped[k], ConversionHeaders)
                  /\ IsFinite(e.rate)
                  /\ IF e.sessions[1] > 0
                     THEN e.rate[1] * e.sessions[1] * e.conversions[2]
                              = e.conversions[1] * e.sessions[2] * e.rate[2]
                     ELSE e.rate = Zero

\* a row with conversions and an unparseable or non-positive traffic cell has
\* been given the rate 0
C12_Witness ==
    /\ Aggregated
    /\ \E k \in DOMAIN enriched :
          /\ HdrSessions \in DOMAIN mapped[k]
          /\ mapped[k][HdrSessions] \in {<<"0">>, <<"-", "5">>, <<"n", "/", "a">>}
          /\ enriched[k].conversions[1] > 0
          /\ enriched[k].rate = Zero

\* the sum, over the rows of the parsed table, of the numbers held under hs
RECURSIVE TotalFrom(_, _)
TotalFrom(k, hs) ==
    IF k > Len(mapped) THEN 0
    ELSE Expected(mapped[k], hs)[1] + TotalFrom(k + 1, hs)

\* C13: the KPI record holds the number of parsed rows, the sums of traffic
\* and conversions over all the rows, and their quotient when the total
\* traffic is positive, 0 otherwise.
C13_Kpis ==
    Aggregated =>
        LET ts == TotalFrom(1, TrafficHeaders)
            tc == TotalFrom(1, ConversionHeaders)
            cr == ConversionRate(kpis)
        IN  /\ RowCount(kpis) = Len(mapped)
            /\ TotalSessions(kpis) = <<ts, 1>>
            /\ TotalConversions(kpis) = <<tc, 1>>
            /\ IsFinite(cr)
            /\ IF ts > 0 THEN cr[1] * ts = tc * cr[2] ELSE cr = Zero

\* the totals of a table with more rows than a ranking shows
C13_Witness ==
    /\ Aggregated
    /\ Len(mapped) > TopCount
    /\ TotalSessions(kpis)[1] > 0
    /\ ConversionRate(kpis)[1] > 0

Min(a, b) == IF a < b THEN a ELSE b

\* how many times v occurs in s
Count(s, v) == Cardinality({k \in DOMAIN s : s[k] = v})

\* every element of top is an element of all, no more often than there
TakenFrom(top, all) == \A v \in Range(top) : Count(top, v) <= Count(all, v)

\* the rows of all that top leaves out (at least once)
LeftOut(top, all) == {v \in Range(all) : Count(all, v) > Count(top, v)}

\* s is ordered by non-increasing f
NonIncreasing(s, f) ==
    \A k \in 1..(Len(s) - 1) : ~Greater(s[k + 1][f], s[k][f])

Positive(s) == {k \in DOMAIN s : s[k].sessions[1] > 0}

\* C14: topBySessions holds min(6, rowCount) rows of the table, each no more
\* often than the table does, by non-increasing traffic; rows without
\* positive traffic fill it when fewer than 6 rows have positive traffic; no
\* row left out has more traffic than a row listed.
C14_TopBySessions ==
    Aggregated =>
        /\ Len(topBySessions) = Min(TopCount, Len(mapped))
        /\ NonIncreasing(topBySessions, "sessions")
        /\ TakenFrom(topBySessions, enriched)
        /\ Cardinality(DOMAIN topBySessions \ Positive(topBySessions))
               = Len(topBySessions)
                     - Min(TopCount, Cardinality(Positive(enriched)))
        /\ \A v \in LeftOut(topBySessions, enriched) :
              \A k \in DOMAIN topBySessions :
                  ~Greater(v.sessions, topBySessions[k].sessions)

\* a table of more than 6 rows whose ranking spans several traffic values
\* and leaves a row out
C14_Witness ==
    /\ Aggregated
    /\ Len(mapped) > TopCount
    /\ Len(topBySessions) = TopCount
    /\ Greater(topBySessions[1].sessions, topBySessions[TopCount].sessions)
    /\ LeftOut(topBySessions, enriched) # {}

\* the rows of the parsed table whose traffic cell stands for 25 or more
Reaching25 ==
    {k \in DOMAIN mapped : Expected(mapped[k], TrafficHeaders)[1] >= 25}

\* C15: topByRate holds only rows with traffic >= 25, by non-increasing rate,
\* as many as min(6, number of rows with traffic >= 25): it is never padded
\* with rows below the floor, and is empty when no row reaches it.
C15_TopByRate ==
    Aggregated =>
        /\ \A k \in DOMAIN topByRate :
              topByRate[k].sessions[1] >= 25 * topByRate[k].sessions[2]
        /\ NonIncreasing(topByRate, "rate")
        /\ Len(topByRate) = Min(TopCount, Cardinality(Reaching25))
        /\ TakenFrom(topByRate, enriched)
        /\ \A v \in LeftOut(topByRate, enriched) :
              v.sessions[1] >= 25 * v.sessions[2] =>
                  \A k \in DOMAIN topByRate :
                      ~Greater(v.rate, topByRate[k].rate)

\* no row reaches the floor: the rate ranking is empty although the traffic
\* ranking is not and a row has a rate of 9/10
C15_Witness ==
    /\ Aggregated
    /\ topByRate = <<>>
    /\ topBySessions # <<>>
    /\ \E k \in DOMAIN enriched : enriched[k].rate = <<9, 10>>

\* the position of row v in the enriched table (its rows pairwise distinct)
SourceIndex(v) == CHOOSE k \in DOMAIN enriched : enriched[k] = v

\* among the rows of equal f, top lists the earlier of the table first, and
\* those it leaves out of the candidates come later than those it lists
TiesInSourceOrder(top, f, candidates) ==
    /\ \A a, b \in DOMAIN top :
          a < b /\ top[a][f] = top[b][f]
              => SourceIndex(top[a]) < SourceIndex(top[b])
    /\ \A v \in candidates \ Range(top) :
          \A k \in DOMAIN top :
              v[f] = top[k][f] => SourceIndex(top[k]) < SourceIndex(v)

\* C16: in a table of pairwise distinct rows, rows of equal traffic appear in
\* topBySessions in source order and eligible rows of equal rate appear in
\* topByRate in source order; of the rows tying at the cut-off the earliest
\* are kept.
C16_TiesKeepSourceOrder ==
    Aggregated /\ Distinct(enriched) =>
        /\ TiesInSourceOrder(topBySessions, "sessions", Range(enriched))
        /\ TiesInSourceOrder(topByRate, "rate",
               {v \in Range(enriched) : v.sessions[1] >= 25 * v.sessions[2]})

\* seven distinct rows of equal traffic and rate: the first six are listed
C16_Witness ==
    /\ Aggregated
    /\ Distinct(enriched)
    /\ Len(enriched) > TopCount
    /\ \A k \in DOMAIN enriched :
          /\ enriched[k].sessions = enriched[1].sessions
          /\ enriched[k].rate = enriched[1].rate
    /\ topBySessions = SubSeq(enriched, 1, TopCount)
    /\ topByRate = SubSeq(enriched, 1, TopCount)

LblPricing == <<"/", "p", "r", "i", "c", "i", "n", "g">>
LblAbout == <<"/", "a", "b", "o", "u", "t">>
LblContact == <<"/", "c", "o", "n", "t", "a", "c", "t">>

\* the labels of a ranking
LabelsOf(top) == [k \in 1..Len(top) |-> top[k].label]

\* the scenario text has been parsed and aggregated
ScenarioAggregated ==
    /\ Aggregated
    /\ headers = ParseCsv(TextScenario).headers
    /\ mapped = ParseCsv(TextScenario).rows

\* what the scenario gives apart from the rate ranking: 3 rows, 1520
\* sessions, 40 conversions, the rate 40/1520, and the traffic ranking
\* /about (1000), /pricing (500), /contact (20)
ScenarioTotalsAndVolume ==
    /\ RowCount(kpis) = 3
    /\ TotalSessions(kpis) = <<1520, 1>>
    /\ TotalConversions(kpis) = <<40, 1>>
    /\ ConversionRate(kpis)[1] * 1520 = 40 * ConversionRate(kpis)[2]
    /\ LabelsOf(topBySessions) = <<LblAbout, LblPricing, LblContact>>
    /\ [k \in 1..Len(topBySessions) |-> topBySessions[k].sessions]
           = <<<<1000, 1>>, <<500, 1>>, <<20, 1>>>>

\* C17: for the scenario text, parsing then aggregating gives rowCount 3,
\* totalTraffic 1520, totalConversions 40, overallRate 40/1520, topByVolume
\* /about, /pricing, /contact, and topByRate equal to /pricing only.
C17_ScenarioAsStated ==
    ScenarioAggregated =>
        /\ ScenarioTotalsAndVolume
        /\ LabelsOf(topByRate) = <<LblPricing>>

\* C17, amended: the same, with topByRate equal to /pricing (rate 1/20)
\* followed by /about (rate 1/200); only /contact, with traffic 20, is below
\* the floor of 25.
C17_Scenario ==
    ScenarioAggregated =>
        /\ ScenarioTotalsAndVolume
        /\ LabelsOf(topByRate) = <<LblPricing, LblAbout>>
        /\ [k \in 1..Len(topByRate) |-> topByRate[k].rate]
               = <<<<1, 20>>, <<1, 200>>>>

C17_Witness == ScenarioAggregated /\ Len(topByRate) = 2

NoTrafficColumn == Range(headers) \cap TrafficHeaders = {}

NoConversionColumn == Range(headers) \cap ConversionHeaders = {}

\* C18: without a traffic column every row has traffic 0, the total traffic
\* and the overall rate are 0, topByRate is empty and topBySessions is the
\* first min(6, rowCount) rows in source order; without a conversion column
\* every row has conversions 0 and rate 0; with no rows the totals are 0 and
\* both rankings are empty; and no error message is set.
C18_AbsentColumnsDegrade ==
    Aggregated =>
        /\ errorMessage = NULL
        /\ NoTrafficColumn =>
              /\ \A k \in DOMAIN enriched : enriched[k].sessions = Zero
              /\ TotalSessions(kpis) = Zero
              /\ ConversionRate(kpis) = Zero
              /\ topByRate = <<>>
              /\ topBySessions
                     = SubSeq(enriched, 1, Min(TopCount, Len(mapped)))
        /\ NoConversionColumn =>
              \A k \in DOMAIN enriched :
                  enriched[k].conversions = Zero /\ enriched[k].rate = Zero
        /\ mapped = <<>> =>
              /\ TotalSessions(kpis) = Zero
              /\ TotalConversions(kpis) = Zero
              /\ topBySessions = <<>>
              /\ topByRate = <<>>

\* a table of more than 6 rows without a traffic column, with conversions
C18_Witness ==
    /\ Aggregated
    /\ NoTrafficColumn
    /\ Len(mapped) > TopCount
    /\ TotalConversions(kpis)[1] > 0
    /\ Len(topBySessions) = TopCount

(***************************************************************************)
(* C19: the dashboard shows the latest upload only                         *)
(***************************************************************************)
\* what parsing and aggregating text t alone gives
ShownFor(t) ==
    LET parsed == ParseCsv(t)
        en == EnrichAll(LabelColumn(parsed.headers),
                        PickColumn(parsed.headers, SessionsCandidates),
                        PickColumn(parsed.headers, ConversionsCandidates),
                        parsed.rows)
    IN  [headers |-> parsed.headers,
         rows |-> parsed.rows,
         kpis |-> KpisOf(en, Len(parsed.rows)),
         topBySessions |-> TopBySessions(en),
         topByRate |-> TopByRate(en)]

Shown == [t \in UiTexts |-> ShownFor(t)]

\* an upload has completed and none has been started since
UploadCompleted == pc = "idle" /\ ~loading /\ text # NULL

\* C19: once an upload has completed, the stored headers, rows, KPIs and
\* rankings are those computed from the text of that upload alone, whatever
\* was uploaded, requested or dismissed before; so the same text uploaded
\* twice gives the same values.
C19_LatestUploadOnly ==
    UploadCompleted =>
        /\ csvHeaders = Shown[text].headers
        /\ csvRows = Shown[text].rows
        /\ kpis = Shown[text].kpis
        /\ topBySessions = Shown[text].topBySessions
        /\ topByRate = Shown[text].topByRate

\* the file without a traffic column has been uploaded while the AI request
\* made for the two-page file, uploaded before it, is still pending
C19_Witness ==
    /\ UploadCompleted
    /\ text = TextNoTraffic
    /\ request = Sample(Shown[TextTwoPages].headers, Shown[TextTwoPages].rows)
    /\ Len(csvRows) = 1

(***************************************************************************)
(* C20: the text generateAI hands to analyzeHubspotData                    *)
(***************************************************************************)
\* the pieces one after another, by halves
RECURSIVE Flat(_)
Flat(parts) ==
    IF Len(parts) = 0 THEN <<>>
    ELSE IF Len(parts) = 1 THEN parts[1]
    ELSE Flat(SubSeq(parts, 1, Len(parts) \div 2))
             \o Flat(SubSeq(parts, Len(parts) \div 2 + 1, Len(parts)))

\* the pieces with sep between neighbours
Separated(parts, sep) ==
    Flat([k \in 1..Len(parts) |-> IF k = 1 THEN parts[k] ELSE sep \o parts[k]])

\* a character inside a JSON string
Escaped(c) ==
    CASE c = QUOTE -> <<"\\", QUOTE>>
      [] c = "\\" -> <<"\\", "\\">>
      [] c = LF -> <<"\\", "n">>
      [] c = CR -> <<"\\", "r">>
      [] c = TAB -> <<"\\", "t">>
      [] OTHER -> <<c>>

\* a cell as a JSON string
Quoted(cell) ==
    <<QUOTE>> \o Flat([k \in 1..Len(cell) |-> Escaped(cell[k])]) \o <<QUOTE>>

\* the stored row k: its cells in header order, quoted, between commas
RowLine(k) ==
    Separated([j \in 1..Len(csvHeaders) |-> Quoted(csvRows[k][csvHeaders[j]])],
              <<COMMA>>)

\* the header row and the first n stored rows, one per line
Serialized(n) ==
    Separated(csvHeaders, <<COMMA>>) \o <<LF>>
        \o Separated([k \in 1..n |-> RowLine(k)], <<LF>>)

\* generateAI has handed a text to analyzeHubspotData
Sent == request # NULL

\* C20 as stated: the text is the header row followed by whole rows, the
\* first n of the table for some n of at most 200, and it is at most 50,000
\* characters long.
C20_SampleAsStated ==
    Sent =>
        /\ Len(request) <= SampleChars
        /\ \E n \in 0..Min(SampleRows, Len(csvRows)) : request = Serialized(n)

\* C20: the text is the first 50,000 characters (all of them when there are
\* fewer) of the header row followed by the first 200 rows of the table (all
\* of them when there are fewer) in source order, each cell JSON-escaped
\* and the cells of a row joined by commas; so it may end inside a row.
C20_Sample ==
    Sent =>
        /\ Len(request) <= SampleChars
        /\ \E full \in {Serialized(Min(SampleRows, Len(csvRows)))} :
              request = SubSeq(full, 1, Min(SampleChars, Len(full)))

\* a table of more than 200 rows whose first 200 rows take more than 50,000
\* characters has been sent: the text stops at 50,000 characters
C20_Witness ==
    /\ Sent
    /\ Len(csvRows) > SampleRows
    /\ Len(request) = SampleChars
    /\ Len(csvRows[1][HdrN]) = LongCell

(***************************************************************************)
(* C21: what an upload and New Report discard                              *)
(***************************************************************************)
\* no table, no KPIs and no rankings are stored
Cleared ==
    /\ csvHeaders = <<>>
    /\ csvRows = <<>>
    /\ kpis = NULL
    /\ topBySessions = <<>>
    /\ topByRate = <<>>

\* C21: the step that starts an upload and the New Report step both leave
\* csvHeaders and csvRows empty, kpis null and both top lists empty (and
\* they stay so until a result is stored, no other step writing them).
C21_DiscardedOnUploadAndReset ==
    [][(HandleFileUpload \/ NewReport) => Cleared']_vars

(***************************************************************************)
(* C22..C24: the table parseCsv returns                                    *)
(***************************************************************************)
\* t with cs inserted after position k
InsertAfter(t, k, cs) == SubSeq(t, 1, k) \o cs \o SubSeq(t, k + 1, Len(t))

\* position k of t holds the \n that ends a line, and another line follows
BetweenLines(t, k) ==
    /\ k \in 1..(Len(t) - 1)
    /\ t[k] = LF
    /\ OutsideQuotes(t, k)

\* C22: for every text, one more \n inserted after the \n between two
\* consecutive lines (an interior blank line) gives the same table; so
\* h\n1\n\n2 has the rows of h\n1\n2.
C22_InteriorBlankLineDropped ==
    pc = "done" =>
        \A k \in 1..Len(text) :
            BetweenLines(text, k) =>
                ParseCsv(InsertAfter(text, k, <<LF>>)) = Returned

AllEmpty(m) == \A h \in DOMAIN m : m[h] = Empty

\* C23: for every text, no row mapping of the returned table has all of its
\* values equal to the empty string.
C23_NoEmptyMapping ==
    pc = "done" => \A m \in 1..Len(mapped) : ~AllEmpty(mapped[m])

\* headers a and b are equal, a stands before b and no equal header stands
\* after b
LaterOfEqual(a, b) ==
    /\ a < b
    /\ headers[a] = headers[b]
    /\ \A c \in (b + 1)..Len(headers) : headers[c] # headers[b]

\* the trimmed cell at position p of a raw row, '' when the row is shorter
TrimmedCell(r, p) == IF p <= Len(r) THEN Trim(r[p]) ELSE Empty

\* C24: headers holds the trimmed cells of the first row, equal ones
\* included; when two headers are equal, every row mapping has one key for
\* both, and it holds the trimmed cell at the position of the later one (of
\* the last one when more than two are equal).
C24_LaterDuplicateWins ==
    pc = "done" =>
        /\ Len(rows) > 0 =>
              /\ Len(headers) = Len(rows[1])
              /\ \A k \in 1..Len(headers) : headers[k] = Trim(rows[1][k])
        /\ \A a \in 1..Len(headers) : \A b \in 1..Len(headers) :
              LaterOfEqual(a, b) =>
                  \A m \in 1..Len(mapped) :
                      /\ mapped[m][headers[b]] =
                             TrimmedCell(DataRows(rows)[m], b)
                      /\ Cardinality(DOMAIN mapped[m]) < Len(headers)

\* two equal headers and a data line with two different cells: the mapping
\* holds the second cell
C24_Witness ==
    /\ pc = "done"
    /\ Len(headers) = 2
    /\ LaterOfEqual(1, 2)
    /\ Len(mapped) = 1
    /\ Len(DataRows(rows)[1]) = 2
    /\ Trim(DataRows(rows)[1][1]) # Empty
    /\ Trim(DataRows(rows)[1][2]) # Empty
    /\ Trim(DataRows(rows)[1][1]) # Trim(DataRows(rows)[1][2])
    /\ mapped[1][headers[2]] = Trim(DataRows(rows)[1][2])

(***************************************************************************)
(* C25..C29: AI requests and uploads                                       *)
(***************************************************************************)
\* the text generateAI would send for the table that is stored now
SampleOfLoaded == Substring0(Sample(csvHeaders, csvRows), SampleChars)

\* this step stores an analysis
AnalysisStored == analysis' # NULL /\ analysis' # analysis

\* C25: an analysis is stored only when the request it answers was made
\* from the table that is loaded at that moment; the answer to a request
\* made before a new upload is not stored.
C25_AnalysisOfLoadedCsv ==
    [][AnalysisStored => request = SampleOfLoaded]_vars

\* C26: when the call of the AI proxy fails, generateAI ends with an error
\* message, with the analysis it had and with isGeneratingAI false (the
\* parent's callback, which is not called, has no state in this component).
C26_FailureReported ==
    [][AiProxyFails =>
          /\ errorMessage' # NULL
          /\ analysis' = analysis
          /\ isGeneratingAI' = FALSE]_vars

\* the dashboard is on screen with its Generate button: the upload view is
\* rendered (no analysis) and KPIs are stored
DashboardShown == pc = "idle" /\ analysis = NULL /\ kpis # NULL

\* C27: whenever the dashboard is shown, at least one row is stored and no
\* AI request is in flight, generateAI issues a request.
C27_GenerateIssuesRequest ==
    (DashboardShown /\ Len(csvRows) > 0 /\ request = NULL) =>
        ENABLED (GenerateAI /\ request' # NULL)

\* generateAI is invoked with a file name, with rows and with no request
\* being made
MayIssue ==
    /\ fileName # NULL
    /\ fileName # Empty
    /\ Len(csvRows) > 0
    /\ ~isGeneratingAI

\* this step issues a request
RequestIssued == request' # NULL /\ request' # request

\* C28: at most one AI request is in flight: a request is issued only when
\* none is pending, and only with a file name, with rows and with
\* isGeneratingAI false; otherwise generateAI changes nothing; and
\* isGeneratingAI is true exactly while a request is pending, so it is false
\* again once the request has settled, with a result, with null or with an
\* exception.
C28_OneRequestAtATime ==
    /\ [][RequestIssued => (request = NULL /\ MayIssue)]_vars
    /\ [](~MayIssue => ~ENABLED (GenerateAI /\ vars' # vars))
    /\ [](isGeneratingAI <=> request # NULL)
    /\ [][(request # NULL /\ request' = NULL) => ~isGeneratingAI']_vars

\* a request is pending, the Generate button is on screen and a message is
\* shown that a second request would clear
C28_Witness ==
    /\ DashboardShown
    /\ request # NULL
    /\ isGeneratingAI
    /\ fileName # NULL
    /\ Len(csvRows) > 0
    /\ errorMessage # NULL

\* this step starts an upload
UploadStarts == file' # NULL /\ file' # file

\* C29: every started upload ends with loading false; when reading the file
\* raises, the handler ends with an error message and with an empty
\* dashboard (no table, no KPIs, no rankings, no analysis); and no upload
\* starts while loading is true.
C29_UploadEnds ==
    /\ loading ~> ~loading
    /\ [][FileTextRejects =>
             /\ ~loading'
             /\ errorMessage' # NULL
             /\ Cleared'
             /\ analysis' = NULL]_vars
    /\ [][UploadStarts => ~loading]_vars

(***************************************************************************)
(* C30: the columns of the three roles                                     *)
(***************************************************************************)
\* both columns are resolved and they are different headers
DistinctIfResolved(a, b) == (a # NULL /\ b # NULL) => a # b

\* C30: for every header list, the headers resolved for the label, traffic
\* and conversion roles are pairwise distinct whenever they are resolved.
C30_RolesDistinct ==
    pc = "dash" =>
        /\ DistinctIfResolved(labelCol, sessionsCol)
        /\ DistinctIfResolved(labelCol, conversionsCol)
        /\ DistinctIfResolved(sessionsCol, conversionsCol)

====
